---- MODULE Spec2Model ----
(***************************************************************************)
(* Verification model of pulley_eqns.ipynb: the analytical solution of the *)
(* GT-2 / GT-3 pulley tooth profile.  The notebook builds an ordered list  *)
(* of closed forms, final_sol, and evaluates it entry by entry for one set *)
(* of parameter values (final_sol_eval).                                   *)
(*                                                                         *)
(* Numbers.  sympy evaluates the closed forms over the extended complex    *)
(* numbers.  The model computes exactly in the numbers                     *)
(*        (n/d) * sqrt(m) * pi^e      (m squarefree, n/d in lowest terms)  *)
(* which are closed under the products, quotients and square roots the     *)
(* closed forms take, and carries sympy's non-finite results as kinds:     *)
(*   "zoo"   complex infinity, the value of x/0 for x # 0                  *)
(*   "nan"   the value of 0/0, 0*zoo, zoo+zoo                              *)
(*   "cplx"  a complex number with an imaginary part (sqrt of a negative   *)
(*           number and what is computed from it; its magnitude is not     *)
(*           tracked)                                                      *)
(*   "sym"   an expression with a symbol left free (not numeric)           *)
(*   "unrep" a finite real outside the number field above (the sum of two  *)
(*           incommensurable surds); NumbersExact states that no           *)
(*           evaluation of the pipeline meets one.                         *)
(* Angles that are not multiples of pi (the result of asin) are unit       *)
(* vectors [k |-> "ang", s |-> sine, c |-> cosine].                        *)
(***************************************************************************)
EXTENDS Integers, Sequences, FiniteSets, TLC

Abs(i) == IF i < 0 THEN -i ELSE i

Sgn(i) == IF i < 0 THEN -1 ELSE IF i = 0 THEN 0 ELSE 1

RECURSIVE Gcd(_, _)
Gcd(a, b) == IF b = 0 THEN a ELSE Gcd(b, a % b)

(* k = out^2 * in with in squarefree, by trial division from g upwards *)
RECURSIVE ExtractSq(_, _)
ExtractSq(k, g) ==
  IF g * g > k THEN [out |-> 1, in |-> k]
  ELSE IF k % (g * g) = 0
       THEN LET r == ExtractSq(k \div (g * g), g)
            IN  [out |-> g * r.out, in |-> r.in]
       ELSE ExtractSq(k, g + 1)

Kind(kind) == [k |-> kind, n |-> 0, d |-> 1, m |-> 1, e |-> 0]

Zoo == Kind("zoo")

NaN == Kind("nan")

Cplx == Kind("cplx")

Sym == Kind("sym")

Unrep == Kind("unrep")

(* the number (n/d) * sqrt(m) * pi^e in lowest terms; d > 0 *)
Mk(n, d, m, e) ==
  IF n = 0 THEN [k |-> "fin", n |-> 0, d |-> 1, m |-> 1, e |-> 0]
  ELSE LET g == Gcd(Abs(n), d)
       IN  [k |-> "fin", n |-> n \div g, d |-> d \div g, m |-> m, e |-> e]

Num(i) == Mk(i, 1, 1, 0)

Rat(n, d) == Mk(n, d, 1, 0)

pi == Mk(1, 1, 1, 1)

IsFin(a) == a.k = "fin"

IsZero(a) == a.k = "fin" /\ a.n = 0

IsAng(a) == a.k = "ang"

Neg(a) == IF IsFin(a) THEN [a EXCEPT !.n = -a.n] ELSE a

Mul(a, b) ==
  IF a.k = "nan" \/ b.k = "nan" THEN NaN
  ELSE IF IsZero(a) \/ IsZero(b)
       THEN IF a.k = "zoo" \/ b.k = "zoo" THEN NaN ELSE Num(0)
  ELSE IF a.k = "sym" \/ b.k = "sym" THEN Sym
  ELSE IF a.k = "zoo" \/ b.k = "zoo" THEN Zoo
  ELSE IF a.k = "cplx" \/ b.k = "cplx" THEN Cplx
  ELSE IF a.k = "unrep" \/ b.k = "unrep" THEN Unrep
  ELSE LET g  == Gcd(a.m, b.m)
           g1 == Gcd(Abs(a.n), b.d)
           g2 == Gcd(Abs(b.n), a.d)
       IN  Mk((a.n \div g1) * (b.n \div g2) * g, (a.d \div g2) * (b.d \div g1),
              (a.m \div g) * (b.m \div g), a.e + b.e)

(* a^-1; sympy: 0^-1 = zoo, zoo^-1 = 0 *)
Inv(a) ==
  IF a.k = "zoo" THEN Num(0)
  ELSE IF ~IsFin(a) THEN a
  ELSE IF a.n = 0 THEN Zoo
  ELSE Mk(Sgn(a.n) * a.d, Abs(a.n) * a.m, a.m, -a.e)

Div(a, b) == Mul(a, Inv(b))

RECURSIVE Pow(_, _)
Pow(a, p) == IF p = 1 THEN a ELSE Mul(a, Pow(a, p - 1))

(* sqrt of a rational; a negative argument gives an imaginary number *)
sqrt(a) ==
  IF ~IsFin(a) THEN a
  ELSE IF a.m # 1 \/ a.e # 0 THEN Unrep
  ELSE IF a.n < 0 THEN Cplx
  ELSE IF a.n = 0 THEN a
  ELSE LET p == ExtractSq(a.n, 2)
           q == ExtractSq(a.d, 2)
       IN  Mk(p.out, q.out * q.in, p.in * q.in, 0)

(* sin(k*pi/12), k in 0..23, where it is a single surd *)
SinTab(k) ==
  LET j == k % 12
      v == CASE j = 0 -> Num(0)
             [] j = 2 \/ j = 10 -> Rat(1, 2)
             [] j = 3 \/ j = 9 -> Mk(1, 2, 2, 0)
             [] j = 4 \/ j = 8 -> Mk(1, 2, 3, 0)
             [] j = 6 -> Num(1)
             [] OTHER -> Unrep
  IN  IF k < 12 THEN v ELSE Neg(v)

(* the unit vector of the angle a, a multiple of pi/12 *)
ToAng(a) ==
  IF IsAng(a) THEN a
  ELSE IF IsZero(a) THEN [k |-> "ang", s |-> Num(0), c |-> Num(1)]
  ELSE IF IsFin(a) /\ a.e = 1 /\ a.m = 1 /\ 12 % a.d = 0
       THEN LET i == (a.n * (12 \div a.d)) % 24
            IN  [k |-> "ang", s |-> SinTab(i), c |-> SinTab((i + 6) % 24)]
  ELSE [k |-> "ang", s |-> Unrep, c |-> Unrep]

AddNum(a, b) ==
  IF a.k = "nan" \/ b.k = "nan" THEN NaN
  ELSE IF a.k = "sym" \/ b.k = "sym" THEN Sym
  ELSE IF a.k = "zoo" /\ b.k = "zoo" THEN NaN
  ELSE IF a.k = "zoo" \/ b.k = "zoo" THEN Zoo
  ELSE IF a.k = "cplx" \/ b.k = "cplx" THEN Cplx
  ELSE IF a.k = "unrep" \/ b.k = "unrep" THEN Unrep
  ELSE IF a.n = 0 THEN b
  ELSE IF b.n = 0 THEN a
  ELSE IF a.m = b.m /\ a.e = b.e
       THEN LET g == Gcd(a.d, b.d)
            IN  Mk(a.n * (b.d \div g) + b.n * (a.d \div g), (a.d \div g) * b.d,
                   a.m, a.e)
  ELSE Unrep

Sub(a, b) == AddNum(a, Neg(b))

(* a + b for an angle b given as a unit vector: the rotation of b by a *)
AddAng(a, b) ==
  IF ~IsFin(a) THEN a
  ELSE LET u == ToAng(a)
       IN  [k |-> "ang",
            s |-> AddNum(Mul(u.s, b.c), Mul(u.c, b.s)),
            c |-> Sub(Mul(u.c, b.c), Mul(u.s, b.s))]

Add(a, b) ==
  IF IsAng(b) THEN AddAng(a, b)
  ELSE IF IsAng(a) THEN AddAng(b, a)
  ELSE AddNum(a, b)

(* sympy: sin(zoo) = cos(zoo) = nan *)
Trig(a, sine) ==
  IF a.k = "zoo" THEN NaN
  ELSE IF ~IsFin(a) /\ ~IsAng(a) THEN a
  ELSE IF sine THEN ToAng(a).s ELSE ToAng(a).c

sin(a) == Trig(a, TRUE)

cos(a) == Trig(a, FALSE)

(* a <= 1 in absolute value, for a number with e = 0 *)
InUnit(a) == a.n * a.n * a.m <= a.d * a.d

(* asin: the angle in [-pi/2, pi/2] (cosine >= 0) whose sine is a *)
asin(a) ==
  IF ~IsFin(a) THEN a
  ELSE IF a.e # 0 THEN Unrep
  ELSE IF ~InUnit(a) THEN Cplx
  ELSE [k |-> "ang", s |-> a, c |-> sqrt(Sub(Num(1), Mul(a, a)))]

(***************************************************************************)
(* sympy expressions: the closed forms are expression trees, built by the  *)
(* constructors below and evaluated by N under a substitution.             *)
(***************************************************************************)
Symbol(s) == [op |-> "Symbol", name |-> s]

Integer(j) == [op |-> "Integer", val |-> j]

(* a numeric value standing where a symbol was substituted *)
Number(x) == [op |-> "Number", val |-> x]

Pi == [op |-> "pi"]

Plus(a, b) == [op |-> "Add", a |-> a, b |-> b]

Minus(a) == [op |-> "Neg", a |-> a]

Times(a, b) == [op |-> "Mul", a |-> a, b |-> b]

Quot(a, b) == [op |-> "Div", a |-> a, b |-> b]

Power(a, p) == [op |-> "Pow", a |-> a, p |-> p]

Sqrt(a) == [op |-> "sqrt", a |-> a]

Sin(a) == [op |-> "sin", a |-> a]

Cos(a) == [op |-> "cos", a |-> a]

Asin(a) == [op |-> "asin", a |-> a]

(* the value of the expression e with the symbols replaced by v *)
RECURSIVE N(_, _)
N(e, v) ==
  CASE e.op = "Symbol" -> v[e.name]
    [] e.op = "Integer" -> Num(e.val)
    [] e.op = "Number" -> e.val
    [] e.op = "pi" -> pi
    [] e.op = "Add" -> Add(N(e.a, v), N(e.b, v))
    [] e.op = "Neg" -> Neg(N(e.a, v))
    [] e.op = "Mul" -> Mul(N(e.a, v), N(e.b, v))
    [] e.op = "Div" -> Div(N(e.a, v), N(e.b, v))
    [] e.op = "Pow" -> Pow(N(e.a, v), e.p)
    [] e.op = "sqrt" -> sqrt(N(e.a, v))
    [] e.op = "sin" -> sin(N(e.a, v))
    [] e.op = "cos" -> cos(N(e.a, v))
    [] e.op = "asin" -> asin(N(e.a, v))

(* the symbols the expression e references (sympy: e.free_symbols) *)
RECURSIVE free_symbols(_)
free_symbols(e) ==
  CASE e.op = "Symbol" -> {e.name}
    [] e.op \in {"Integer", "Number", "pi"} -> {}
    [] e.op \in {"Add", "Mul", "Div"} ->
         free_symbols(e.a) \cup free_symbols(e.b)
    [] OTHER -> free_symbols(e.a)

(* reflect_point with the sign of x_new lost: a rotation, not a reflection *)
reflect_point_Mut(x, y, theta) ==
  LET R == Sqrt(Plus(Power(x, 2), Power(y, 2)))
      theta_new == Plus(Times(Integer(2), theta),
                        Asin(Quot(x, Sqrt(Plus(Power(x, 2), Power(y, 2))))))
  IN  <<Times(R, Sin(theta_new)), Times(R, Cos(theta_new))>>

(* reflect_point: the reflection of (x, y) across the ray at angle theta   *)
(* from the y axis, as expressions in x, y and theta                       *)
reflect_point(x, y, theta) ==
  LET R == Sqrt(Plus(Power(x, 2), Power(y, 2)))
      theta_new == Plus(Times(Integer(2), theta),
                        Asin(Quot(x, Sqrt(Plus(Power(x, 2), Power(y, 2))))))
      x_new == Times(Minus(R), Sin(theta_new))
      y_new == Times(R, Cos(theta_new))
  IN  <<x_new, y_new>>

(* L_sub with PD_sub substituted: P*t/(2*pi) - PLD + RAB - h *)
L_sub ==
  Plus(Quot(Times(Symbol("P"), Symbol("t")), Times(Integer(2), Pi)),
    Plus(Minus(Symbol("PLD")),
    Plus(Symbol("RAB"),
    Minus(Symbol("h")))))

(* the argument of the square root of the Stage 1 closed forms *)
(* Delta with the sign of RBC^2 flipped *)
Delta_Mut ==
  Plus(Power(Symbol("RAB"), 2),
    Plus(Minus(Times(Times(Integer(2), Symbol("RAB")), Symbol("RBC"))),
    Plus(Minus(Power(Symbol("RBC"), 2)),
    Plus(Times(Times(Integer(4), Power(L_sub, 2)), Power(Sin(Quot(Times(Pi,
      Symbol("b")), Times(Symbol("P"), Symbol("t")))), 4)),
    Minus(Times(Times(Integer(4), Power(L_sub, 2)),
      Power(Sin(Quot(Times(Pi, Symbol("b")), Times(Symbol("P"),
      Symbol("t")))), 2)))))))

(* the argument of the square root of the Stage 1 closed forms *)
Delta ==
  Plus(Power(Symbol("RAB"), 2),
    Plus(Minus(Times(Times(Integer(2), Symbol("RAB")), Symbol("RBC"))),
    Plus(Power(Symbol("RBC"), 2),
    Plus(Times(Times(Integer(4), Power(L_sub, 2)), Power(Sin(Quot(Times(Pi,
      Symbol("b")), Times(Symbol("P"), Symbol("t")))), 4)),
    Minus(Times(Times(Integer(4), Power(L_sub, 2)),
      Power(Sin(Quot(Times(Pi, Symbol("b")), Times(Symbol("P"),
      Symbol("t")))), 2)))))))

Expr_AX ==
  Quot(Times(Plus(Times(Times(Times(Minus(Integer(2)), Power(Symbol("RAB"),
  2)), L_sub), Power(Sin(Quot(Times(Pi, Symbol("b")), Times(Symbol("P"),
  Symbol("t")))), 2)),
    Plus(Times(Power(Symbol("RAB"), 2), L_sub),
    Plus(Times(Power(Symbol("RAB"), 2), Sqrt(Delta)),
    Plus(Minus(Times(Times(Times(Times(Integer(2), Symbol("RAB")),
      Symbol("RBC")), L_sub), Power(Sin(Quot(Times(Pi, Symbol("b")),
      Times(Symbol("P"), Symbol("t")))), 2))),
    Plus(Times(Times(Symbol("RAB"), Symbol("RBC")), L_sub),
    Plus(Times(Times(Symbol("RAB"), Symbol("RBC")), Sqrt(Delta)),
    Plus(Times(Times(Integer(256), Power(L_sub, 3)),
      Power(Sin(Quot(Times(Pi, Symbol("b")), Times(Symbol("P"),
      Symbol("t")))), 18)),
    Plus(Minus(Times(Times(Integer(1152), Power(L_sub, 3)),
      Power(Sin(Quot(Times(Pi, Symbol("b")), Times(Symbol("P"),
      Symbol("t")))), 16))),
    Plus(Times(Times(Integer(2112), Power(L_sub, 3)),
      Power(Sin(Quot(Times(Pi, Symbol("b")), Times(Symbol("P"),
      Symbol("t")))), 14)),
    Plus(Times(Times(Times(Integer(256), Power(L_sub, 3)),
      Power(Sin(Quot(Times(Pi, Symbol("b")), Times(Symbol("P"),
      Symbol("t")))), 12)), Power(Cos(Quot(Times(Pi, Symbol("b")),
      Times(Symbol("P"), Symbol("t")))), 6)),
    Plus(Minus(Times(Times(Integer(2016), Power(L_sub, 3)),
      Power(Sin(Quot(Times(Pi, Symbol("b")), Times(Symbol("P"),
      Symbol("t")))), 12))),
    Plus(Minus(Times(Times(Times(Integer(384), Power(L_sub, 3)),
      Power(Sin(Quot(Times(Pi, Symbol("b")), Times(Symbol("P"),
      Symbol("t")))), 10)), Power(Cos(Quot(Times(Pi, Symbol("b")),
      Times(Symbol("P"), Symbol("t")))), 6))),
    Plus(Times(Times(Integer(1056), Power(L_sub, 3)),
      Power(Sin(Quot(Times(Pi, Symbol("b")), Times(Symbol("P"),
      Symbol("t")))), 10)),
    Plus(Times(Times(Times(Integer(192), Power(L_sub, 3)),
      Power(Sin(Quot(Times(Pi, Symbol("b")), Times(Symbol("P"),
      Symbol("t")))), 8)), Power(Cos(Quot(Times(Pi, Symbol("b")),
      Times(Symbol("P"), Symbol("t")))), 6)),
    Plus(Minus(Times(Times(Integer(288), Power(L_sub, 3)),
      Power(Sin(Quot(Times(Pi, Symbol("b")), Times(Symbol("P"),
      Symbol("t")))), 8))),
    Plus(Minus(Times(Times(Times(Integer(32), Power(L_sub, 3)),
      Power(Sin(Quot(Times(Pi, Symbol("b")), Times(Symbol("P"),
      Symbol("t")))), 6)), Power(Cos(Quot(Times(Pi, Symbol("b")),
      Times(Symbol("P"), Symbol("t")))), 6))),
    Times(Times(Integer(32), Power(L_sub, 3)), Power(Sin(Quot(Times(Pi,
      Symbol("b")), Times(Symbol("P"), Symbol("t")))), 6)))))))))))))))))),
      Sin(Quot(Times(Times(Integer(2), Pi), Symbol("b")),
      Times(Symbol("P"), Symbol("t"))))), Plus(Power(Symbol("RAB"), 2),
    Minus(Power(Symbol("RBC"), 2))))

Expr_AY ==
  Quot(Plus(Times(Times(Times(Integer(4), Power(Symbol("RAB"), 2)), L_sub),
  Power(Sin(Quot(Times(Pi, Symbol("b")), Times(Symbol("P"), Symbol("t")))),
  4)),
    Plus(Minus(Times(Times(Times(Integer(4), Power(Symbol("RAB"), 2)),
      L_sub), Power(Sin(Quot(Times(Pi, Symbol("b")), Times(Symbol("P"),
      Symbol("t")))), 2))),
    Plus(Times(Power(Symbol("RAB"), 2), L_sub),
    Plus(Minus(Times(Times(Times(Integer(2), Power(Symbol("RAB"), 2)),
      Sqrt(Delta)), Power(Sin(Quot(Times(Pi, Symbol("b")),
      Times(Symbol("P"), Symbol("t")))), 2))),
    Plus(Times(Power(Symbol("RAB"), 2), Sqrt(Delta)),
    Plus(Times(Times(Times(Times(Integer(4), Symbol("RAB")),
      Symbol("RBC")), L_sub), Power(Sin(Quot(Times(Pi, Symbol("b")),
      Times(Symbol("P"), Symbol("t")))), 4)),
    Plus(Minus(Times(Times(Times(Times(Integer(4), Symbol("RAB")),
      Symbol("RBC")), L_sub), Power(Sin(Quot(Times(Pi, Symbol("b")),
      Times(Symbol("P"), Symbol("t")))), 2))),
    Plus(Minus(Times(Times(Times(Times(Integer(2), Symbol("RAB")),
      Symbol("RBC")), Sqrt(Delta)), Power(Sin(Quot(Times(Pi, Symbol("b")),
      Times(Symbol("P"), Symbol("t")))), 2))),
    Plus(Times(Times(Symbol("RAB"), Symbol("RBC")), Sqrt(Delta)),
    Plus(Minus(Times(Power(Symbol("RBC"), 2), L_sub)),
    Plus(Minus(Times(Times(Integer(512), Power(L_sub, 3)),
      Power(Sin(Quot(Times(Pi, Symbol("b")), Times(Symbol("P"),
      Symbol("t")))), 20))),
    Plus(Times(Times(Integer(2560), Power(L_sub, 3)),
      Power(Sin(Quot(Times(Pi, Symbol("b")), Times(Symbol("P"),
      Symbol("t")))), 18)),
    Plus(Minus(Times(Times(Integer(5248), Power(L_sub, 3)),
      Power(Sin(Quot(Times(Pi, Symbol("b")), Times(Symbol("P"),
      Symbol("t")))), 16))),
    Plus(Minus(Times(Times(Times(Integer(512), Power(L_sub, 3)),
      Power(Sin(Quot(Times(Pi, Symbol("b")), Times(Symbol("P"),
      Symbol("t")))), 14)), Power(Cos(Quot(Times(Pi, Symbol("b")),
      Times(Symbol("P"), Symbol("t")))), 6))),
    Plus(Times(Times(Integer(5632), Power(L_sub, 3)),
      Power(Sin(Quot(Times(Pi, Symbol("b")), Times(Symbol("P"),
      Symbol("t")))), 14)),
    Plus(Times(Times(Times(Integer(1024), Power(L_sub, 3)),
      Power(Sin(Quot(Times(Pi, Symbol("b")), Times(Symbol("P"),
      Symbol("t")))), 12)), Power(Cos(Quot(Times(Pi, Symbol("b")),
      Times(Symbol("P"), Symbol("t")))), 6)),
    Plus(Minus(Times(Times(Integer(3328), Power(L_sub, 3)),
      Power(Sin(Quot(Times(Pi, Symbol("b")), Times(Symbol("P"),
      Symbol("t")))), 12))),
    Plus(Minus(Times(Times(Times(Integer(640), Power(L_sub, 3)),
      Power(Sin(Quot(Times(Pi, Symbol("b")), Times(Symbol("P"),
      Symbol("t")))), 10)), Power(Cos(Quot(Times(Pi, Symbol("b")),
      Times(Symbol("P"), Symbol("t")))), 6))),
    Plus(Times(Times(Integer(1024), Power(L_sub, 3)),
      Power(Sin(Quot(Times(Pi, Symbol("b")), Times(Symbol("P"),
      Symbol("t")))), 10)),
    Plus(Times(Times(Times(Integer(128), Power(L_sub, 3)),
      Power(Sin(Quot(Times(Pi, Symbol("b")), Times(Symbol("P"),
      Symbol("t")))), 8)), Power(Cos(Quot(Times(Pi, Symbol("b")),
      Times(Symbol("P"), Symbol("t")))), 6)),
    Minus(Times(Times(Integer(128), Power(L_sub, 3)),
      Power(Sin(Quot(Times(Pi, Symbol("b")), Times(Symbol("P"),
      Symbol("t")))), 8))))))))))))))))))))))), Plus(Power(Symbol("RAB"),
      2),
    Minus(Power(Symbol("RBC"), 2))))

(* BX with the sign lost: the closed form of AX *)
Expr_BX_Mut == Expr_AX

Expr_BX ==
  Quot(Times(Plus(Times(Times(Times(Integer(2), Power(Symbol("RAB"), 2)),
  L_sub), Power(Sin(Quot(Times(Pi, Symbol("b")), Times(Symbol("P"),
  Symbol("t")))), 2)),
    Plus(Minus(Times(Power(Symbol("RAB"), 2), L_sub)),
    Plus(Minus(Times(Power(Symbol("RAB"), 2), Sqrt(Delta))),
    Plus(Times(Times(Times(Times(Integer(2), Symbol("RAB")),
      Symbol("RBC")), L_sub), Power(Sin(Quot(Times(Pi, Symbol("b")),
      Times(Symbol("P"), Symbol("t")))), 2)),
    Plus(Minus(Times(Times(Symbol("RAB"), Symbol("RBC")), L_sub)),
    Plus(Minus(Times(Times(Symbol("RAB"), Symbol("RBC")), Sqrt(Delta))),
    Plus(Minus(Times(Times(Integer(256), Power(L_sub, 3)),
      Power(Sin(Quot(Times(Pi, Symbol("b")), Times(Symbol("P"),
      Symbol("t")))), 18))),
    Plus(Times(Times(Integer(1152), Power(L_sub, 3)),
      Power(Sin(Quot(Times(Pi, Symbol("b")), Times(Symbol("P"),
      Symbol("t")))), 16)),
    Plus(Minus(Times(Times(Integer(2112), Power(L_sub, 3)),
      Power(Sin(Quot(Times(Pi, Symbol("b")), Times(Symbol("P"),
      Symbol("t")))), 14))),
    Plus(Minus(Times(Times(Times(Integer(256), Power(L_sub, 3)),
      Power(Sin(Quot(Times(Pi, Symbol("b")), Times(Symbol("P"),
      Symbol("t")))), 12)), Power(Cos(Quot(Times(Pi, Symbol("b")),
      Times(Symbol("P"), Symbol("t")))), 6))),
    Plus(Times(Times(Integer(2016), Power(L_sub, 3)),
      Power(Sin(Quot(Times(Pi, Symbol("b")), Times(Symbol("P"),
      Symbol("t")))), 12)),
    Plus(Times(Times(Times(Integer(384), Power(L_sub, 3)),
      Power(Sin(Quot(Times(Pi, Symbol("b")), Times(Symbol("P"),
      Symbol("t")))), 10)), Power(Cos(Quot(Times(Pi, Symbol("b")),
      Times(Symbol("P"), Symbol("t")))), 6)),
    Plus(Minus(Times(Times(Integer(1056), Power(L_sub, 3)),
      Power(Sin(Quot(Times(Pi, Symbol("b")), Times(Symbol("P"),
      Symbol("t")))), 10))),
    Plus(Minus(Times(Times(Times(Integer(192), Power(L_sub, 3)),
      Power(Sin(Quot(Times(Pi, Symbol("b")), Times(Symbol("P"),
      Symbol("t")))), 8)), Power(Cos(Quot(Times(Pi, Symbol("b")),
      Times(Symbol("P"), Symbol("t")))), 6))),
    Plus(Times(Times(Integer(288), Power(L_sub, 3)),
      Power(Sin(Quot(Times(Pi, Symbol("b")), Times(Symbol("P"),
      Symbol("t")))), 8)),
    Plus(Times(Times(Times(Integer(32), Power(L_sub, 3)),
      Power(Sin(Quot(Times(Pi, Symbol("b")), Times(Symbol("P"),
      Symbol("t")))), 6)), Power(Cos(Quot(Times(Pi, Symbol("b")),
      Times(Symbol("P"), Symbol("t")))), 6)),
    Minus(Times(Times(Integer(32), Power(L_sub, 3)),
      Power(Sin(Quot(Times(Pi, Symbol("b")), Times(Symbol("P"),
      Symbol("t")))), 6))))))))))))))))))),
      Sin(Quot(Times(Times(Integer(2), Pi), Symbol("b")),
      Times(Symbol("P"), Symbol("t"))))), Plus(Power(Symbol("RAB"), 2),
    Minus(Power(Symbol("RBC"), 2))))

Expr_BY ==
  Quot(Plus(Times(Times(Times(Integer(4), Power(Symbol("RAB"), 2)), L_sub),
  Power(Sin(Quot(Times(Pi, Symbol("b")), Times(Symbol("P"), Symbol("t")))),
  4)),
    Plus(Minus(Times(Times(Times(Integer(4), Power(Symbol("RAB"), 2)),
      L_sub), Power(Sin(Quot(Times(Pi, Symbol("b")), Times(Symbol("P"),
      Symbol("t")))), 2))),
    Plus(Times(Power(Symbol("RAB"), 2), L_sub),
    Plus(Minus(Times(Times(Times(Integer(2), Power(Symbol("RAB"), 2)),
      Sqrt(Delta)), Power(Sin(Quot(Times(Pi, Symbol("b")),
      Times(Symbol("P"), Symbol("t")))), 2))),
    Plus(Times(Power(Symbol("RAB"), 2), Sqrt(Delta)),
    Plus(Times(Times(Times(Times(Integer(4), Symbol("RAB")),
      Symbol("RBC")), L_sub), Power(Sin(Quot(Times(Pi, Symbol("b")),
      Times(Symbol("P"), Symbol("t")))), 4)),
    Plus(Minus(Times(Times(Times(Times(Integer(4), Symbol("RAB")),
      Symbol("RBC")), L_sub), Power(Sin(Quot(Times(Pi, Symbol("b")),
      Times(Symbol("P"), Symbol("t")))), 2))),
    Plus(Minus(Times(Times(Times(Times(Integer(2), Symbol("RAB")),
      Symbol("RBC")), Sqrt(Delta)), Power(Sin(Quot(Times(Pi, Symbol("b")),
      Times(Symbol("P"), Symbol("t")))), 2))),
    Plus(Times(Times(Symbol("RAB"), Symbol("RBC")), Sqrt(Delta)),
    Plus(Minus(Times(Power(Symbol("RBC"), 2), L_sub)),
    Plus(Minus(Times(Times(Integer(512), Power(L_sub, 3)),
      Power(Sin(Quot(Times(Pi, Symbol("b")), Times(Symbol("P"),
      Symbol("t")))), 20))),
    Plus(Times(Times(Integer(2560), Power(L_sub, 3)),
      Power(Sin(Quot(Times(Pi, Symbol("b")), Times(Symbol("P"),
      Symbol("t")))), 18)),
    Plus(Minus(Times(Times(Integer(5248), Power(L_sub, 3)),
      Power(Sin(Quot(Times(Pi, Symbol("b")), Times(Symbol("P"),
      Symbol("t")))), 16))),
    Plus(Minus(Times(Times(Times(Integer(512), Power(L_sub, 3)),
      Power(Sin(Quot(Times(Pi, Symbol("b")), Times(Symbol("P"),
      Symbol("t")))), 14)), Power(Cos(Quot(Times(Pi, Symbol("b")),
      Times(Symbol("P"), Symbol("t")))), 6))),
    Plus(Times(Times(Integer(5632), Power(L_sub, 3)),
      Power(Sin(Quot(Times(Pi, Symbol("b")), Times(Symbol("P"),
      Symbol("t")))), 14)),
    Plus(Times(Times(Times(Integer(1024), Power(L_sub, 3)),
      Power(Sin(Quot(Times(Pi, Symbol("b")), Times(Symbol("P"),
      Symbol("t")))), 12)), Power(Cos(Quot(Times(Pi, Symbol("b")),
      Times(Symbol("P"), Symbol("t")))), 6)),
    Plus(Minus(Times(Times(Integer(3328), Power(L_sub, 3)),
      Power(Sin(Quot(Times(Pi, Symbol("b")), Times(Symbol("P"),
      Symbol("t")))), 12))),
    Plus(Minus(Times(Times(Times(Integer(640), Power(L_sub, 3)),
      Power(Sin(Quot(Times(Pi, Symbol("b")), Times(Symbol("P"),
      Symbol("t")))), 10)), Power(Cos(Quot(Times(Pi, Symbol("b")),
      Times(Symbol("P"), Symbol("t")))), 6))),
    Plus(Times(Times(Integer(1024), Power(L_sub, 3)),
      Power(Sin(Quot(Times(Pi, Symbol("b")), Times(Symbol("P"),
      Symbol("t")))), 10)),
    Plus(Times(Times(Times(Integer(128), Power(L_sub, 3)),
      Power(Sin(Quot(Times(Pi, Symbol("b")), Times(Symbol("P"),
      Symbol("t")))), 8)), Power(Cos(Quot(Times(Pi, Symbol("b")),
      Times(Symbol("P"), Symbol("t")))), 6)),
    Minus(Times(Times(Integer(128), Power(L_sub, 3)),
      Power(Sin(Quot(Times(Pi, Symbol("b")), Times(Symbol("P"),
      Symbol("t")))), 8))))))))))))))))))))))), Plus(Power(Symbol("RAB"),
      2),
    Minus(Power(Symbol("RBC"), 2))))

Expr_ABX ==
  Integer(0)

Expr_ABY ==
  L_sub

Expr_BCX ==
  Times(Plus(Quot(Times(Minus(Symbol("P")), Symbol("t")), Times(Integer(2),
  Pi)),
    Plus(Symbol("PLD"),
    Plus(Minus(Symbol("RAB")),
    Plus(Symbol("h"),
    Plus(Times(Times(Integer(2), L_sub), Power(Sin(Quot(Times(Pi,
      Symbol("b")), Times(Symbol("P"), Symbol("t")))), 2)),
    Minus(Sqrt(Delta))))))), Sin(Quot(Times(Times(Integer(2), Pi),
      Symbol("b")), Times(Symbol("P"), Symbol("t")))))

(* BCY with the sine taken in place of the cosine *)
Expr_BCY_Mut ==
  Times(Plus(Quot(Times(Symbol("P"), Symbol("t")), Times(Integer(2), Pi)),
    Plus(Minus(Symbol("PLD")),
    Plus(Symbol("RAB"),
    Plus(Minus(Symbol("h")),
    Plus(Minus(Times(Times(Integer(2), L_sub), Power(Sin(Quot(Times(Pi,
      Symbol("b")), Times(Symbol("P"), Symbol("t")))), 2))),
    Sqrt(Delta)))))), Sin(Quot(Times(Times(Integer(2), Pi), Symbol("b")),
      Times(Symbol("P"), Symbol("t")))))

Expr_BCY ==
  Times(Plus(Quot(Times(Symbol("P"), Symbol("t")), Times(Integer(2), Pi)),
    Plus(Minus(Symbol("PLD")),
    Plus(Symbol("RAB"),
    Plus(Minus(Symbol("h")),
    Plus(Minus(Times(Times(Integer(2), L_sub), Power(Sin(Quot(Times(Pi,
      Symbol("b")), Times(Symbol("P"), Symbol("t")))), 2))),
    Sqrt(Delta)))))), Cos(Quot(Times(Times(Integer(2), Pi), Symbol("b")),
      Times(Symbol("P"), Symbol("t")))))

Expr_RBXY ==
  Plus(Quot(Times(Symbol("P"), Symbol("t")), Times(Integer(2), Pi)),
    Plus(Minus(Symbol("PLD")),
    Plus(Symbol("RAB"),
    Plus(Minus(Symbol("h")),
    Plus(Minus(Times(Times(Integer(2), L_sub), Power(Sin(Quot(Times(Pi,
      Symbol("b")), Times(Symbol("P"), Symbol("t")))), 2))),
    Sqrt(Delta))))))

Expr_CDX ==
  Quot(Plus(Times(Integer(4), Power(Symbol("BCX"), 2)),
    Plus(Times(Integer(4), Power(Symbol("BCY"), 2)),
    Plus(Minus(Times(Times(Integer(8), Symbol("BCY")),
      Plus(Quot(Times(Minus(Symbol("BCX")),
      Sqrt(Times(Minus(Plus(Times(Integer(4), Power(Symbol("BCX"), 2)),
    Plus(Times(Integer(4), Power(Symbol("BCY"), 2)),
    Plus(Minus(Quot(Times(Power(Symbol("P"), 2), Power(Symbol("t"), 2)),
      Power(Pi, 2))),
    Plus(Quot(Times(Times(Times(Integer(4), Symbol("P")), Symbol("PLD")),
      Symbol("t")), Pi),
    Plus(Minus(Quot(Times(Times(Times(Integer(4), Symbol("P")),
      Symbol("RBC")), Symbol("t")), Pi)),
    Plus(Minus(Times(Integer(4), Power(Symbol("PLD"), 2))),
    Plus(Times(Times(Integer(8), Symbol("PLD")), Symbol("RBC")),
    Minus(Times(Integer(4), Power(Symbol("RBC"), 2))))))))))),
      Plus(Times(Integer(4), Power(Symbol("BCX"), 2)),
    Plus(Times(Integer(4), Power(Symbol("BCY"), 2)),
    Plus(Minus(Quot(Times(Power(Symbol("P"), 2), Power(Symbol("t"), 2)),
      Power(Pi, 2))),
    Plus(Quot(Times(Times(Times(Integer(4), Symbol("P")), Symbol("PLD")),
      Symbol("t")), Pi),
    Plus(Quot(Times(Times(Times(Integer(4), Symbol("P")), Symbol("RBC")),
      Symbol("t")), Pi),
    Plus(Quot(Times(Times(Times(Integer(8), Symbol("P")), Symbol("RCD")),
      Symbol("t")), Pi),
    Plus(Minus(Times(Integer(4), Power(Symbol("PLD"), 2))),
    Plus(Minus(Times(Times(Integer(8), Symbol("PLD")), Symbol("RBC"))),
    Plus(Minus(Times(Times(Integer(16), Symbol("PLD")), Symbol("RCD"))),
    Plus(Minus(Times(Integer(4), Power(Symbol("RBC"), 2))),
    Plus(Minus(Times(Times(Integer(16), Symbol("RBC")), Symbol("RCD"))),
    Minus(Times(Integer(16), Power(Symbol("RCD"), 2))))))))))))))))),
      Times(Integer(8), Plus(Power(Symbol("BCX"), 2),
    Power(Symbol("BCY"), 2)))),
    Quot(Times(Symbol("BCY"), Plus(Times(Integer(4), Power(Symbol("BCX"),
      2)),
    Plus(Times(Integer(4), Power(Symbol("BCY"), 2)),
    Plus(Quot(Times(Power(Symbol("P"), 2), Power(Symbol("t"), 2)),
      Power(Pi, 2)),
    Plus(Minus(Quot(Times(Times(Times(Integer(4), Symbol("P")),
      Symbol("PLD")), Symbol("t")), Pi)),
    Plus(Minus(Quot(Times(Times(Times(Integer(4), Symbol("P")),
      Symbol("RCD")), Symbol("t")), Pi)),
    Plus(Times(Integer(4), Power(Symbol("PLD"), 2)),
    Plus(Times(Times(Integer(8), Symbol("PLD")), Symbol("RCD")),
    Plus(Minus(Times(Integer(4), Power(Symbol("RBC"), 2))),
    Minus(Times(Times(Integer(8), Symbol("RBC")), Symbol("RCD")))))))))))),
      Times(Integer(8), Plus(Power(Symbol("BCX"), 2),
    Power(Symbol("BCY"), 2))))))),
    Plus(Quot(Times(Power(Symbol("P"), 2), Power(Symbol("t"), 2)),
      Power(Pi, 2)),
    Plus(Minus(Quot(Times(Times(Times(Integer(4), Symbol("P")),
      Symbol("PLD")), Symbol("t")), Pi)),
    Plus(Minus(Quot(Times(Times(Times(Integer(4), Symbol("P")),
      Symbol("RCD")), Symbol("t")), Pi)),
    Plus(Times(Integer(4), Power(Symbol("PLD"), 2)),
    Plus(Times(Times(Integer(8), Symbol("PLD")), Symbol("RCD")),
    Plus(Minus(Times(Integer(4), Power(Symbol("RBC"), 2))),
    Minus(Times(Times(Integer(8), Symbol("RBC")), Symbol("RCD")))))))))))),
      Times(Integer(8), Symbol("BCX")))

Expr_CDY ==
  Plus(Quot(Times(Minus(Symbol("BCX")),
  Sqrt(Times(Minus(Plus(Times(Integer(4), Power(Symbol("BCX"), 2)),
    Plus(Times(Integer(4), Power(Symbol("BCY"), 2)),
    Plus(Minus(Quot(Times(Power(Symbol("P"), 2), Power(Symbol("t"), 2)),
      Power(Pi, 2))),
    Plus(Quot(Times(Times(Times(Integer(4), Symbol("P")), Symbol("PLD")),
      Symbol("t")), Pi),
    Plus(Minus(Quot(Times(Times(Times(Integer(4), Symbol("P")),
      Symbol("RBC")), Symbol("t")), Pi)),
    Plus(Minus(Times(Integer(4), Power(Symbol("PLD"), 2))),
    Plus(Times(Times(Integer(8), Symbol("PLD")), Symbol("RBC")),
    Minus(Times(Integer(4), Power(Symbol("RBC"), 2))))))))))),
      Plus(Times(Integer(4), Power(Symbol("BCX"), 2)),
    Plus(Times(Integer(4), Power(Symbol("BCY"), 2)),
    Plus(Minus(Quot(Times(Power(Symbol("P"), 2), Power(Symbol("t"), 2)),
      Power(Pi, 2))),
    Plus(Quot(Times(Times(Times(Integer(4), Symbol("P")), Symbol("PLD")),
      Symbol("t")), Pi),
    Plus(Quot(Times(Times(Times(Integer(4), Symbol("P")), Symbol("RBC")),
      Symbol("t")), Pi),
    Plus(Quot(Times(Times(Times(Integer(8), Symbol("P")), Symbol("RCD")),
      Symbol("t")), Pi),
    Plus(Minus(Times(Integer(4), Power(Symbol("PLD"), 2))),
    Plus(Minus(Times(Times(Integer(8), Symbol("PLD")), Symbol("RBC"))),
    Plus(Minus(Times(Times(Integer(16), Symbol("PLD")), Symbol("RCD"))),
    Plus(Minus(Times(Integer(4), Power(Symbol("RBC"), 2))),
    Plus(Minus(Times(Times(Integer(16), Symbol("RBC")), Symbol("RCD"))),
    Minus(Times(Integer(16), Power(Symbol("RCD"), 2))))))))))))))))),
      Times(Integer(8), Plus(Power(Symbol("BCX"), 2),
    Power(Symbol("BCY"), 2)))),
    Quot(Times(Symbol("BCY"), Plus(Times(Integer(4), Power(Symbol("BCX"),
      2)),
    Plus(Times(Integer(4), Power(Symbol("BCY"), 2)),
    Plus(Quot(Times(Power(Symbol("P"), 2), Power(Symbol("t"), 2)),
      Power(Pi, 2)),
    Plus(Minus(Quot(Times(Times(Times(Integer(4), Symbol("P")),
      Symbol("PLD")), Symbol("t")), Pi)),
    Plus(Minus(Quot(Times(Times(Times(Integer(4), Symbol("P")),
      Symbol("RCD")), Symbol("t")), Pi)),
    Plus(Times(Integer(4), Power(Symbol("PLD"), 2)),
    Plus(Times(Times(Integer(8), Symbol("PLD")), Symbol("RCD")),
    Plus(Minus(Times(Integer(4), Power(Symbol("RBC"), 2))),
    Minus(Times(Times(Integer(8), Symbol("RBC")), Symbol("RCD")))))))))))),
      Times(Integer(8), Plus(Power(Symbol("BCX"), 2),
    Power(Symbol("BCY"), 2)))))

Expr_CX ==
  Plus(Symbol("CDX"),
    Minus(Quot(Times(Symbol("RCD"), Plus(Minus(Symbol("BCX")),
    Symbol("CDX"))), Plus(Symbol("RBC"),
    Symbol("RCD")))))

Expr_CY ==
  Plus(Symbol("CDY"),
    Minus(Quot(Times(Symbol("RCD"), Plus(Minus(Symbol("BCY")),
    Symbol("CDY"))), Plus(Symbol("RBC"),
    Symbol("RCD")))))

(* CDR with the square root lost *)
Expr_CDR_Mut ==
  Plus(Power(Symbol("CDX"), 2),
    Power(Symbol("CDY"), 2))

Expr_CDR ==
  Sqrt(Plus(Power(Symbol("CDX"), 2),
    Power(Symbol("CDY"), 2)))

(* DX with RCD - CDR in place of CDR + RCD *)
Expr_DX_Mut ==
  Quot(Times(Symbol("CDX"), Plus(Minus(Symbol("CDR")),
    Symbol("RCD"))), Symbol("CDR"))

Expr_DX ==
  Quot(Times(Symbol("CDX"), Plus(Symbol("CDR"),
    Symbol("RCD"))), Symbol("CDR"))

Expr_DY ==
  Quot(Times(Symbol("CDY"), Plus(Symbol("CDR"),
    Symbol("RCD"))), Symbol("CDR"))

Expr_TANG ==
  Quot(Minus(Pi), Symbol("t"))

Expr_EX ==
  reflect_point(Symbol("DX"), Symbol("DY"), Symbol("TANG"))[1]

Expr_EY ==
  reflect_point(Symbol("DX"), Symbol("DY"), Symbol("TANG"))[2]

Expr_FX ==
  reflect_point(Symbol("CX"), Symbol("CY"), Symbol("TANG"))[1]

Expr_FY ==
  reflect_point(Symbol("CX"), Symbol("CY"), Symbol("TANG"))[2]

Expr_EFX ==
  reflect_point(Symbol("CDX"), Symbol("CDY"), Symbol("TANG"))[1]

Expr_EFY ==
  reflect_point(Symbol("CDX"), Symbol("CDY"), Symbol("TANG"))[2]

(* GX taken from the reflection of BC in place of B *)
Expr_GX_Mut ==
  reflect_point(Symbol("BCX"), Symbol("BCY"), Symbol("TANG"))[1]

Expr_GX ==
  reflect_point(Symbol("BX"), Symbol("BY"), Symbol("TANG"))[1]

Expr_GY ==
  reflect_point(Symbol("BX"), Symbol("BY"), Symbol("TANG"))[2]

Expr_FGX ==
  reflect_point(Symbol("BCX"), Symbol("BCY"), Symbol("TANG"))[1]

Expr_FGY ==
  reflect_point(Symbol("BCX"), Symbol("BCY"), Symbol("TANG"))[2]

(* the closed form of each symbol of final_sol *)
Expr(name) ==
  CASE name = "AX" -> Expr_AX
    [] name = "AY" -> Expr_AY
    [] name = "BX" -> Expr_BX
    [] name = "BY" -> Expr_BY
    [] name = "ABX" -> Expr_ABX
    [] name = "ABY" -> Expr_ABY
    [] name = "BCX" -> Expr_BCX
    [] name = "BCY" -> Expr_BCY
    [] name = "RBXY" -> Expr_RBXY
    [] name = "CDX" -> Expr_CDX
    [] name = "CDY" -> Expr_CDY
    [] name = "CX" -> Expr_CX
    [] name = "CY" -> Expr_CY
    [] name = "CDR" -> Expr_CDR
    [] name = "DX" -> Expr_DX
    [] name = "DY" -> Expr_DY
    [] name = "TANG" -> Expr_TANG
    [] name = "EX" -> Expr_EX
    [] name = "EY" -> Expr_EY
    [] name = "FX" -> Expr_FX
    [] name = "FY" -> Expr_FY
    [] name = "EFX" -> Expr_EFX
    [] name = "EFY" -> Expr_EFY
    [] name = "GX" -> Expr_GX
    [] name = "GY" -> Expr_GY
    [] name = "FGX" -> Expr_FGX
    [] name = "FGY" -> Expr_FGY
(***************************************************************************)
(* The variant of the notebook in which PD is a parameter of its own      *)
(* (params = [RAB, RBC, RCD, b, h, PLD, t, PD, P]): its closed forms.     *)
(***************************************************************************)
(* L_sub of the variant: PD/2 - PLD + RAB - h *)
L_PD ==
  Plus(Quot(Symbol("PD"), Integer(2)),
    Plus(Minus(Symbol("PLD")),
    Plus(Symbol("RAB"),
    Minus(Symbol("h")))))

(* the argument of the square root of the variant's Stage 1 closed forms *)
Delta_PD ==
  Plus(Power(Symbol("RAB"), 2),
    Plus(Minus(Times(Times(Integer(2), Symbol("RAB")), Symbol("RBC"))),
    Plus(Power(Symbol("RBC"), 2),
    Plus(Times(Times(Integer(4), Power(L_PD, 2)),
      Power(Sin(Quot(Symbol("b"), Symbol("PD"))), 4)),
    Minus(Times(Times(Integer(4), Power(L_PD, 2)),
      Power(Sin(Quot(Symbol("b"), Symbol("PD"))), 2)))))))

(* the variant's final_sol: (symbol, closed form), in order *)
final_sol_PD ==
  <<[sym |-> "AX", form |->
  Quot(Times(Plus(Times(Times(Times(Minus(Integer(2)), Power(Symbol("RAB"),
    2)), L_PD), Power(Sin(Quot(Symbol("b"), Symbol("PD"))), 2)),
      Plus(Times(Power(Symbol("RAB"), 2), L_PD),
      Plus(Times(Power(Symbol("RAB"), 2), Sqrt(Delta_PD)),
      Plus(Minus(Times(Times(Times(Times(Integer(2), Symbol("RAB")),
        Symbol("RBC")), L_PD), Power(Sin(Quot(Symbol("b"), Symbol("PD"))),
        2))),
      Plus(Times(Times(Symbol("RAB"), Symbol("RBC")), L_PD),
      Plus(Times(Times(Symbol("RAB"), Symbol("RBC")), Sqrt(Delta_PD)),
      Plus(Times(Times(Integer(256), Power(L_PD, 3)),
        Power(Sin(Quot(Symbol("b"), Symbol("PD"))), 18)),
      Plus(Minus(Times(Times(Integer(1152), Power(L_PD, 3)),
        Power(Sin(Quot(Symbol("b"), Symbol("PD"))), 16))),
      Plus(Times(Times(Integer(2112), Power(L_PD, 3)),
        Power(Sin(Quot(Symbol("b"), Symbol("PD"))), 14)),
      Plus(Times(Times(Times(Integer(256), Power(L_PD, 3)),
        Power(Sin(Quot(Symbol("b"), Symbol("PD"))), 12)),
        Power(Cos(Quot(Symbol("b"), Symbol("PD"))), 6)),
      Plus(Minus(Times(Times(Integer(2016), Power(L_PD, 3)),
        Power(Sin(Quot(Symbol("b"), Symbol("PD"))), 12))),
      Plus(Minus(Times(Times(Times(Integer(384), Power(L_PD, 3)),
        Power(Sin(Quot(Symbol("b"), Symbol("PD"))), 10)),
        Power(Cos(Quot(Symbol("b"), Symbol("PD"))), 6))),
      Plus(Times(Times(Integer(1056), Power(L_PD, 3)),
        Power(Sin(Quot(Symbol("b"), Symbol("PD"))), 10)),
      Plus(Times(Times(Times(Integer(192), Power(L_PD, 3)),
        Power(Sin(Quot(Symbol("b"), Symbol("PD"))), 8)),
        Power(Cos(Quot(Symbol("b"), Symbol("PD"))), 6)),
      Plus(Minus(Times(Times(Integer(288), Power(L_PD, 3)),
        Power(Sin(Quot(Symbol("b"), Symbol("PD"))), 8))),
      Plus(Minus(Times(Times(Times(Integer(32), Power(L_PD, 3)),
        Power(Sin(Quot(Symbol("b"), Symbol("PD"))), 6)),
        Power(Cos(Quot(Symbol("b"), Symbol("PD"))), 6))),
      Times(Times(Integer(32), Power(L_PD, 3)), Power(Sin(Quot(Symbol("b"),
        Symbol("PD"))), 6)))))))))))))))))), Sin(Quot(Times(Integer(2),
        Symbol("b")), Symbol("PD")))), Plus(Power(Symbol("RAB"), 2),
      Minus(Power(Symbol("RBC"), 2))))],
    [sym |-> "AY", form |->
  Quot(Plus(Times(Times(Times(Integer(4), Power(Symbol("RAB"), 2)), L_PD),
    Power(Sin(Quot(Symbol("b"), Symbol("PD"))), 4)),
      Plus(Minus(Times(Times(Times(Integer(4), Power(Symbol("RAB"), 2)),
        L_PD), Power(Sin(Quot(Symbol("b"), Symbol("PD"))), 2))),
      Plus(Times(Power(Symbol("RAB"), 2), L_PD),
      Plus(Minus(Times(Times(Times(Integer(2), Power(Symbol("RAB"), 2)),
        Sqrt(Delta_PD)), Power(Sin(Quot(Symbol("b"), Symbol("PD"))), 2))),
      Plus(Times(Power(Symbol("RAB"), 2), Sqrt(Delta_PD)),
      Plus(Times(Times(Times(Times(Integer(4), Symbol("RAB")),
        Symbol("RBC")), L_PD), Power(Sin(Quot(Symbol("b"), Symbol("PD"))),
        4)),
      Plus(Minus(Times(Times(Times(Times(Integer(4), Symbol("RAB")),
        Symbol("RBC")), L_PD), Power(Sin(Quot(Symbol("b"), Symbol("PD"))),
        2))),
      Plus(Minus(Times(Times(Times(Times(Integer(2), Symbol("RAB")),
        Symbol("RBC")), Sqrt(Delta_PD)), Power(Sin(Quot(Symbol("b"),
        Symbol("PD"))), 2))),
      Plus(Times(Times(Symbol("RAB"), Symbol("RBC")), Sqrt(Delta_PD)),
      Plus(Minus(Times(Power(Symbol("RBC"), 2), L_PD)),
      Plus(Minus(Times(Times(Integer(512), Power(L_PD, 3)),
        Power(Sin(Quot(Symbol("b"), Symbol("PD"))), 20))),
      Plus(Times(Times(Integer(2560), Power(L_PD, 3)),
        Power(Sin(Quot(Symbol("b"), Symbol("PD"))), 18)),
      Plus(Minus(Times(Times(Integer(5248), Power(L_PD, 3)),
        Power(Sin(Quot(Symbol("b"), Symbol("PD"))), 16))),
      Plus(Minus(Times(Times(Times(Integer(512), Power(L_PD, 3)),
        Power(Sin(Quot(Symbol("b"), Symbol("PD"))), 14)),
        Power(Cos(Quot(Symbol("b"), Symbol("PD"))), 6))),
      Plus(Times(Times(Integer(5632), Power(L_PD, 3)),
        Power(Sin(Quot(Symbol("b"), Symbol("PD"))), 14)),
      Plus(Times(Times(Times(Integer(1024), Power(L_PD, 3)),
        Power(Sin(Quot(Symbol("b"), Symbol("PD"))), 12)),
        Power(Cos(Quot(Symbol("b"), Symbol("PD"))), 6)),
      Plus(Minus(Times(Times(Integer(3328), Power(L_PD, 3)),
        Power(Sin(Quot(Symbol("b"), Symbol("PD"))), 12))),
      Plus(Minus(Times(Times(Times(Integer(640), Power(L_PD, 3)),
        Power(Sin(Quot(Symbol("b"), Symbol("PD"))), 10)),
        Power(Cos(Quot(Symbol("b"), Symbol("PD"))), 6))),
      Plus(Times(Times(Integer(1024), Power(L_PD, 3)),
        Power(Sin(Quot(Symbol("b"), Symbol("PD"))), 10)),
      Plus(Times(Times(Times(Integer(128), Power(L_PD, 3)),
        Power(Sin(Quot(Symbol("b"), Symbol("PD"))), 8)),
        Power(Cos(Quot(Symbol("b"), Symbol("PD"))), 6)),
      Minus(Times(Times(Integer(128), Power(L_PD, 3)),
        Power(Sin(Quot(Symbol("b"), Symbol("PD"))), 8))))))))))))))))))))))),
        Plus(Power(Symbol("RAB"), 2),
      Minus(Power(Symbol("RBC"), 2))))],
    [sym |-> "BX", form |->
  Quot(Times(Plus(Times(Times(Times(Integer(2), Power(Symbol("RAB"), 2)),
    L_PD), Power(Sin(Quot(Symbol("b"), Symbol("PD"))), 2)),
      Plus(Minus(Times(Power(Symbol("RAB"), 2), L_PD)),
      Plus(Minus(Times(Power(Symbol("RAB"), 2), Sqrt(Delta_PD))),
      Plus(Times(Times(Times(Times(Integer(2), Symbol("RAB")),
        Symbol("RBC")), L_PD), Power(Sin(Quot(Symbol("b"), Symbol("PD"))),
        2)),
      Plus(Minus(Times(Times(Symbol("RAB"), Symbol("RBC")), L_PD)),
      Plus(Minus(Times(Times(Symbol("RAB"), Symbol("RBC")), Sqrt(Delta_PD))),
      Plus(Minus(Times(Times(Integer(256), Power(L_PD, 3)),
        Power(Sin(Quot(Symbol("b"), Symbol("PD"))), 18))),
      Plus(Times(Times(Integer(1152), Power(L_PD, 3)),
        Power(Sin(Quot(Symbol("b"), Symbol("PD"))), 16)),
      Plus(Minus(Times(Times(Integer(2112), Power(L_PD, 3)),
        Power(Sin(Quot(Symbol("b"), Symbol("PD"))), 14))),
      Plus(Minus(Times(Times(Times(Integer(256), Power(L_PD, 3)),
        Power(Sin(Quot(Symbol("b"), Symbol("PD"))), 12)),
        Power(Cos(Quot(Symbol("b"), Symbol("PD"))), 6))),
      Plus(Times(Times(Integer(2016), Power(L_PD, 3)),
        Power(Sin(Quot(Symbol("b"), Symbol("PD"))), 12)),
      Plus(Times(Times(Times(Integer(384), Power(L_PD, 3)),
        Power(Sin(Quot(Symbol("b"), Symbol("PD"))), 10)),
        Power(Cos(Quot(Symbol("b"), Symbol("PD"))), 6)),
      Plus(Minus(Times(Times(Integer(1056), Power(L_PD, 3)),
        Power(Sin(Quot(Symbol("b"), Symbol("PD"))), 10))),
      Plus(Minus(Times(Times(Times(Integer(192), Power(L_PD, 3)),
        Power(Sin(Quot(Symbol("b"), Symbol("PD"))), 8)),
        Power(Cos(Quot(Symbol("b"), Symbol("PD"))), 6))),
      Plus(Times(Times(Integer(288), Power(L_PD, 3)),
        Power(Sin(Quot(Symbol("b"), Symbol("PD"))), 8)),
      Plus(Times(Times(Times(Integer(32), Power(L_PD, 3)),
        Power(Sin(Quot(Symbol("b"), Symbol("PD"))), 6)),
        Power(Cos(Quot(Symbol("b"), Symbol("PD"))), 6)),
      Minus(Times(Times(Integer(32), Power(L_PD, 3)),
        Power(Sin(Quot(Symbol("b"), Symbol("PD"))), 6))))))))))))))))))),
        Sin(Quot(Times(Integer(2), Symbol("b")), Symbol("PD")))),
        Plus(Power(Symbol("RAB"), 2),
      Minus(Power(Symbol("RBC"), 2))))],
    [sym |-> "BY", form |->
  Quot(Plus(Times(Times(Times(Integer(4), Power(Symbol("RAB"), 2)), L_PD),
    Power(Sin(Quot(Symbol("b"), Symbol("PD"))), 4)),
      Plus(Minus(Times(Times(Times(Integer(4), Power(Symbol("RAB"), 2)),
        L_PD), Power(Sin(Quot(Symbol("b"), Symbol("PD"))), 2))),
      Plus(Times(Power(Symbol("RAB"), 2), L_PD),
      Plus(Minus(Times(Times(Times(Integer(2), Power(Symbol("RAB"), 2)),
        Sqrt(Delta_PD)), Power(Sin(Quot(Symbol("b"), Symbol("PD"))), 2))),
      Plus(Times(Power(Symbol("RAB"), 2), Sqrt(Delta_PD)),
      Plus(Times(Times(Times(Times(Integer(4), Symbol("RAB")),
        Symbol("RBC")), L_PD), Power(Sin(Quot(Symbol("b"), Symbol("PD"))),
        4)),
      Plus(Minus(Times(Times(Times(Times(Integer(4), Symbol("RAB")),
        Symbol("RBC")), L_PD), Power(Sin(Quot(Symbol("b"), Symbol("PD"))),
        2))),
      Plus(Minus(Times(Times(Times(Times(Integer(2), Symbol("RAB")),
        Symbol("RBC")), Sqrt(Delta_PD)), Power(Sin(Quot(Symbol("b"),
        Symbol("PD"))), 2))),
      Plus(Times(Times(Symbol("RAB"), Symbol("RBC")), Sqrt(Delta_PD)),
      Plus(Minus(Times(Power(Symbol("RBC"), 2), L_PD)),
      Plus(Minus(Times(Times(Integer(512), Power(L_PD, 3)),
        Power(Sin(Quot(Symbol("b"), Symbol("PD"))), 20))),
      Plus(Times(Times(Integer(2560), Power(L_PD, 3)),
        Power(Sin(Quot(Symbol("b"), Symbol("PD"))), 18)),
      Plus(Minus(Times(Times(Integer(5248), Power(L_PD, 3)),
        Power(Sin(Quot(Symbol("b"), Symbol("PD"))), 16))),
      Plus(Minus(Times(Times(Times(Integer(512), Power(L_PD, 3)),
        Power(Sin(Quot(Symbol("b"), Symbol("PD"))), 14)),
        Power(Cos(Quot(Symbol("b"), Symbol("PD"))), 6))),
      Plus(Times(Times(Integer(5632), Power(L_PD, 3)),
        Power(Sin(Quot(Symbol("b"), Symbol("PD"))), 14)),
      Plus(Times(Times(Times(Integer(1024), Power(L_PD, 3)),
        Power(Sin(Quot(Symbol("b"), Symbol("PD"))), 12)),
        Power(Cos(Quot(Symbol("b"), Symbol("PD"))), 6)),
      Plus(Minus(Times(Times(Integer(3328), Power(L_PD, 3)),
        Power(Sin(Quot(Symbol("b"), Symbol("PD"))), 12))),
      Plus(Minus(Times(Times(Times(Integer(640), Power(L_PD, 3)),
        Power(Sin(Quot(Symbol("b"), Symbol("PD"))), 10)),
        Power(Cos(Quot(Symbol("b"), Symbol("PD"))), 6))),
      Plus(Times(Times(Integer(1024), Power(L_PD, 3)),
        Power(Sin(Quot(Symbol("b"), Symbol("PD"))), 10)),
      Plus(Times(Times(Times(Integer(128), Power(L_PD, 3)),
        Power(Sin(Quot(Symbol("b"), Symbol("PD"))), 8)),
        Power(Cos(Quot(Symbol("b"), Symbol("PD"))), 6)),
      Minus(Times(Times(Integer(128), Power(L_PD, 3)),
        Power(Sin(Quot(Symbol("b"), Symbol("PD"))), 8))))))))))))))))))))))),
        Plus(Power(Symbol("RAB"), 2),
      Minus(Power(Symbol("RBC"), 2))))],
    [sym |-> "ABX", form |->
  Integer(0)],
    [sym |-> "ABY", form |->
  L_PD],
    [sym |-> "BCX", form |->
  Times(Plus(Quot(Minus(Symbol("PD")), Integer(2)),
      Plus(Symbol("PLD"),
      Plus(Minus(Symbol("RAB")),
      Plus(Symbol("h"),
      Plus(Times(Times(Integer(2), L_PD), Power(Sin(Quot(Symbol("b"),
        Symbol("PD"))), 2)),
      Minus(Sqrt(Delta_PD))))))), Sin(Quot(Times(Integer(2), Symbol("b")),
        Symbol("PD"))))],
    [sym |-> "BCY", form |->
  Times(Plus(Quot(Symbol("PD"), Integer(2)),
      Plus(Minus(Symbol("PLD")),
      Plus(Symbol("RAB"),
      Plus(Minus(Symbol("h")),
      Plus(Minus(Times(Times(Integer(2), L_PD), Power(Sin(Quot(Symbol("b"),
        Symbol("PD"))), 2))),
      Sqrt(Delta_PD)))))), Cos(Quot(Times(Integer(2), Symbol("b")),
        Symbol("PD"))))],
    [sym |-> "RBXY", form |->
  Plus(Quot(Symbol("PD"), Integer(2)),
      Plus(Minus(Symbol("PLD")),
      Plus(Symbol("RAB"),
      Plus(Minus(Symbol("h")),
      Plus(Minus(Times(Times(Integer(2), L_PD), Power(Sin(Quot(Symbol("b"),
        Symbol("PD"))), 2))),
      Sqrt(Delta_PD))))))],
    [sym |-> "CDX", form |->
  Quot(Plus(Times(Integer(4), Power(Symbol("BCX"), 2)),
      Plus(Times(Integer(4), Power(Symbol("BCY"), 2)),
      Plus(Minus(Times(Times(Integer(8), Symbol("BCY")),
        Plus(Quot(Times(Minus(Symbol("BCX")),
        Sqrt(Times(Minus(Plus(Times(Integer(4), Power(Symbol("BCX"), 2)),
      Plus(Times(Integer(4), Power(Symbol("BCY"), 2)),
      Plus(Minus(Power(Symbol("PD"), 2)),
      Plus(Times(Times(Integer(4), Symbol("PD")), Symbol("PLD")),
      Plus(Minus(Times(Times(Integer(4), Symbol("PD")), Symbol("RBC"))),
      Plus(Minus(Times(Integer(4), Power(Symbol("PLD"), 2))),
      Plus(Times(Times(Integer(8), Symbol("PLD")), Symbol("RBC")),
      Minus(Times(Integer(4), Power(Symbol("RBC"), 2))))))))))),
        Plus(Times(Integer(4), Power(Symbol("BCX"), 2)),
      Plus(Times(Integer(4), Power(Symbol("BCY"), 2)),
      Plus(Minus(Power(Symbol("PD"), 2)),
      Plus(Times(Times(Integer(4), Symbol("PD")), Symbol("PLD")),
      Plus(Times(Times(Integer(4), Symbol("PD")), Symbol("RBC")),
      Plus(Times(Times(Integer(8), Symbol("PD")), Symbol("RCD")),
      Plus(Minus(Times(Integer(4), Power(Symbol("PLD"), 2))),
      Plus(Minus(Times(Times(Integer(8), Symbol("PLD")), Symbol("RBC"))),
      Plus(Minus(Times(Times(Integer(16), Symbol("PLD")), Symbol("RCD"))),
      Plus(Minus(Times(Integer(4), Power(Symbol("RBC"), 2))),
      Plus(Minus(Times(Times(Integer(16), Symbol("RBC")), Symbol("RCD"))),
      Minus(Times(Integer(16), Power(Symbol("RCD"), 2))))))))))))))))),
        Times(Integer(8), Plus(Power(Symbol("BCX"), 2),
      Power(Symbol("BCY"), 2)))),
      Quot(Times(Symbol("BCY"), Plus(Times(Integer(4), Power(Symbol("BCX"),
        2)),
      Plus(Times(Integer(4), Power(Symbol("BCY"), 2)),
      Plus(Power(Symbol("PD"), 2),
      Plus(Minus(Times(Times(Integer(4), Symbol("PD")), Symbol("PLD"))),
      Plus(Minus(Times(Times(Integer(4), Symbol("PD")), Symbol("RCD"))),
      Plus(Times(Integer(4), Power(Symbol("PLD"), 2)),
      Plus(Times(Times(Integer(8), Symbol("PLD")), Symbol("RCD")),
      Plus(Minus(Times(Integer(4), Power(Symbol("RBC"), 2))),
      Minus(Times(Times(Integer(8), Symbol("RBC")), Symbol("RCD")))))))))))),
        Times(Integer(8), Plus(Power(Symbol("BCX"), 2),
      Power(Symbol("BCY"), 2))))))),
      Plus(Power(Symbol("PD"), 2),
      Plus(Minus(Times(Times(Integer(4), Symbol("PD")), Symbol("PLD"))),
      Plus(Minus(Times(Times(Integer(4), Symbol("PD")), Symbol("RCD"))),
      Plus(Times(Integer(4), Power(Symbol("PLD"), 2)),
      Plus(Times(Times(Integer(8), Symbol("PLD")), Symbol("RCD")),
      Plus(Minus(Times(Integer(4), Power(Symbol("RBC"), 2))),
      Minus(Times(Times(Integer(8), Symbol("RBC")), Symbol("RCD")))))))))))),
        Times(Integer(8), Symbol("BCX")))],
    [sym |-> "CDY", form |->
  Plus(Quot(Times(Minus(Symbol("BCX")),
    Sqrt(Times(Minus(Plus(Times(Integer(4), Power(Symbol("BCX"), 2)),
      Plus(Times(Integer(4), Power(Symbol("BCY"), 2)),
      Plus(Minus(Power(Symbol("PD"), 2)),
      Plus(Times(Times(Integer(4), Symbol("PD")), Symbol("PLD")),
      Plus(Minus(Times(Times(Integer(4), Symbol("PD")), Symbol("RBC"))),
      Plus(Minus(Times(Integer(4), Power(Symbol("PLD"), 2))),
      Plus(Times(Times(Integer(8), Symbol("PLD")), Symbol("RBC")),
      Minus(Times(Integer(4), Power(Symbol("RBC"), 2))))))))))),
        Plus(Times(Integer(4), Power(Symbol("BCX"), 2)),
      Plus(Times(Integer(4), Power(Symbol("BCY"), 2)),
      Plus(Minus(Power(Symbol("PD"), 2)),
      Plus(Times(Times(Integer(4), Symbol("PD")), Symbol("PLD")),
      Plus(Times(Times(Integer(4), Symbol("PD")), Symbol("RBC")),
      Plus(Times(Times(Integer(8), Symbol("PD")), Symbol("RCD")),
      Plus(Minus(Times(Integer(4), Power(Symbol("PLD"), 2))),
      Plus(Minus(Times(Times(Integer(8), Symbol("PLD")), Symbol("RBC"))),
      Plus(Minus(Times(Times(Integer(16), Symbol("PLD")), Symbol("RCD"))),
      Plus(Minus(Times(Integer(4), Power(Symbol("RBC"), 2))),
      Plus(Minus(Times(Times(Integer(16), Symbol("RBC")), Symbol("RCD"))),
      Minus(Times(Integer(16), Power(Symbol("RCD"), 2))))))))))))))))),
        Times(Integer(8), Plus(Power(Symbol("BCX"), 2),
      Power(Symbol("BCY"), 2)))),
      Quot(Times(Symbol("BCY"), Plus(Times(Integer(4), Power(Symbol("BCX"),
        2)),
      Plus(Times(Integer(4), Power(Symbol("BCY"), 2)),
      Plus(Power(Symbol("PD"), 2),
      Plus(Minus(Times(Times(Integer(4), Symbol("PD")), Symbol("PLD"))),
      Plus(Minus(Times(Times(Integer(4), Symbol("PD")), Symbol("RCD"))),
      Plus(Times(Integer(4), Power(Symbol("PLD"), 2)),
      Plus(Times(Times(Integer(8), Symbol("PLD")), Symbol("RCD")),
      Plus(Minus(Times(Integer(4), Power(Symbol("RBC"), 2))),
      Minus(Times(Times(Integer(8), Symbol("RBC")), Symbol("RCD")))))))))))),
        Times(Integer(8), Plus(Power(Symbol("BCX"), 2),
      Power(Symbol("BCY"), 2)))))],
    [sym |-> "CX", form |->
  Plus(Symbol("CDX"),
      Minus(Quot(Times(Symbol("RCD"), Plus(Minus(Symbol("BCX")),
      Symbol("CDX"))), Plus(Symbol("RBC"),
      Symbol("RCD")))))],
    [sym |-> "CY", form |->
  Plus(Symbol("CDY"),
      Minus(Quot(Times(Symbol("RCD"), Plus(Minus(Symbol("BCY")),
      Symbol("CDY"))), Plus(Symbol("RBC"),
      Symbol("RCD")))))],
    [sym |-> "CDR", form |->
  Sqrt(Plus(Power(Symbol("CDX"), 2),
      Power(Symbol("CDY"), 2)))],
    [sym |-> "DX", form |->
  Quot(Times(Symbol("CDX"), Plus(Symbol("CDR"),
      Symbol("RCD"))), Symbol("CDR"))],
    [sym |-> "DY", form |->
  Quot(Times(Symbol("CDY"), Plus(Symbol("CDR"),
      Symbol("RCD"))), Symbol("CDR"))],
    [sym |-> "TANG", form |->
  Quot(Minus(Symbol("P")), Symbol("PD"))],
    [sym |-> "EX", form |->
  reflect_point(Symbol("DX"), Symbol("DY"), Symbol("TANG"))[1]],
    [sym |-> "EY", form |->
  reflect_point(Symbol("DX"), Symbol("DY"), Symbol("TANG"))[2]],
    [sym |-> "FX", form |->
  reflect_point(Symbol("CX"), Symbol("CY"), Symbol("TANG"))[1]],
    [sym |-> "FY", form |->
  reflect_point(Symbol("CX"), Symbol("CY"), Symbol("TANG"))[2]],
    [sym |-> "EFX", form |->
  reflect_point(Symbol("CDX"), Symbol("CDY"), Symbol("TANG"))[1]],
    [sym |-> "EFY", form |->
  reflect_point(Symbol("CDX"), Symbol("CDY"), Symbol("TANG"))[2]],
    [sym |-> "GX", form |->
  reflect_point(Symbol("BX"), Symbol("BY"), Symbol("TANG"))[1]],
    [sym |-> "GY", form |->
  reflect_point(Symbol("BX"), Symbol("BY"), Symbol("TANG"))[2]],
    [sym |-> "FGX", form |->
  reflect_point(Symbol("BCX"), Symbol("BCY"), Symbol("TANG"))[1]],
    [sym |-> "FGY", form |->
  reflect_point(Symbol("BCX"), Symbol("BCY"), Symbol("TANG"))[2]]>>
(***************************************************************************)
(* The reference fixture: what the evaluation cell of each file displays  *)
(* for vals = [0.555, 1, 0.15, 0.4, 0.75, 0.254, 10, 2], as the files     *)
(* record it.  Dec(neg, e, d) is the decimal +-0.d1 d2 ... * 10^e.        *)
(***************************************************************************)
Dec(neg, e, d) == [neg |-> neg, e |-> e, d |-> d]

(* the display of pulley_eqns.ipynb with one digit of CDX altered *)
final_sol_eval_shown_Mut ==
  <<[sym |-> "AX", val |-> Dec(TRUE, 0, <<4, 6, 8, 3, 8, 7, 1, 0, 8, 2, 3, 4, 8, 7, 3>>)],
    [sym |-> "AY", val |-> Dec(FALSE, 1, <<2, 4, 3, 6, 3, 7, 6, 6, 4, 7, 6, 1, 9, 0, 6>>)],
    [sym |-> "BX", val |-> Dec(FALSE, 0, <<4, 6, 8, 3, 8, 7, 1, 0, 8, 2, 3, 4, 8, 7, 3>>)],
    [sym |-> "BY", val |-> Dec(FALSE, 1, <<2, 4, 3, 6, 3, 7, 6, 6, 4, 7, 6, 1, 9, 0, 6>>)],
    [sym |-> "ABX", val |-> Dec(FALSE, 0, <<>>)],
    [sym |-> "ABY", val |-> Dec(FALSE, 1, <<2, 7, 3, 4, 0, 9, 8, 8, 6, 1, 8, 3, 7, 9, 1>>)],
    [sym |-> "BCX", val |-> Dec(TRUE, 0, <<3, 7, 5, 5, 5, 3, 6, 2, 7, 3, 2, 3, 4, 5, 7>>)],
    [sym |-> "BCY", val |-> Dec(FALSE, 1, <<2, 9, 7, 2, 8, 1, 3, 0, 6, 9, 6, 3, 5, 0, 0>>)],
    [sym |-> "RBXY", val |-> Dec(FALSE, 1, <<2, 9, 9, 6, 4, 4, 0, 9, 0, 1, 1, 3, 3, 9, 6>>)],
    [sym |-> "CDX", val |-> Dec(FALSE, 0, <<7, 3, 7, 4, 7, 4, 6, 8, 9, 7, 7, 3, 9, 0, 7>>)],
    [sym |-> "CDY", val |-> Dec(FALSE, 1, <<2, 6, 7, 9, 7, 3, 7, 9, 5, 6, 4, 4, 1, 1, 1>>)],
    [sym |-> "CX", val |-> Dec(FALSE, 0, <<5, 9, 1, 4, 2, 7, 5, 1, 7, 9, 7, 8, 5, 9, 8>>)],
    [sym |-> "CY", val |-> Dec(FALSE, 1, <<2, 7, 1, 7, 9, 6, 5, 1, 4, 5, 1, 1, 8, 5, 7>>)],
    [sym |-> "CDR", val |-> Dec(FALSE, 1, <<2, 7, 7, 9, 0, 9, 8, 8, 6, 1, 8, 3, 7, 9, 1>>)],
    [sym |-> "DX", val |-> Dec(FALSE, 0, <<7, 7, 6, 2, 2, 5, 4, 1, 7, 9, 6, 2, 4, 7, 8>>)],
    [sym |-> "DY", val |-> Dec(FALSE, 1, <<2, 8, 2, 4, 3, 7, 5, 0, 1, 8, 1, 1, 0, 9, 3>>)],
    [sym |-> "TANG", val |-> Dec(TRUE, 0, <<3, 1, 4, 1, 5, 9, 2, 6, 5, 3, 5, 8, 9, 7, 9>>)],
    [sym |-> "EX", val |-> Dec(FALSE, 1, <<1, 0, 3, 2, 1, 4, 6, 4, 2, 7, 9, 9, 1, 4, 5>>)],
    [sym |-> "EY", val |-> Dec(FALSE, 1, <<2, 7, 4, 1, 2, 2, 1, 2, 4, 1, 2, 7, 2, 7, 0>>)],
    [sym |-> "FX", val |-> Dec(FALSE, 1, <<1, 1, 1, 9, 1, 0, 4, 9, 1, 5, 5, 5, 9, 9, 9>>)],
    [sym |-> "FY", val |-> Dec(FALSE, 1, <<2, 5, 4, 6, 5, 1, 2, 3, 6, 5, 3, 8, 7, 4, 6>>)],
    [sym |-> "EFX", val |-> Dec(FALSE, 0, <<9, 7, 9, 2, 8, 9, 9, 1, 0, 8, 5, 0, 3, 4, 7>>)],
    [sym |-> "EFY", val |-> Dec(FALSE, 1, <<2, 6, 0, 0, 8, 4, 2, 5, 0, 8, 5, 6, 8, 2, 3>>)],
    [sym |-> "GX", val |-> Dec(FALSE, 1, <<1, 0, 5, 3, 1, 3, 3, 1, 3, 1, 9, 9, 2, 1, 1>>)],
    [sym |-> "GY", val |-> Dec(FALSE, 1, <<2, 2, 4, 6, 3, 8, 1, 1, 4, 7, 2, 0, 6, 4, 6>>)],
    [sym |-> "FGX", val |-> Dec(FALSE, 1, <<2, 0, 5, 1, 2, 0, 4, 9, 4, 6, 9, 5, 7, 6, 0>>)],
    [sym |-> "FGY", val |-> Dec(FALSE, 1, <<2, 1, 8, 4, 3, 1, 1, 4, 1, 0, 8, 4, 9, 0, 0>>)]>>

(* the display of pulley_eqns.ipynb *)
final_sol_eval_shown ==
  <<[sym |-> "AX", val |-> Dec(TRUE, 0, <<4, 6, 8, 3, 8, 7, 1, 0, 8, 2, 3, 4, 8, 7, 3>>)],
    [sym |-> "AY", val |-> Dec(FALSE, 1, <<2, 4, 3, 6, 3, 7, 6, 6, 4, 7, 6, 1, 9, 0, 6>>)],
    [sym |-> "BX", val |-> Dec(FALSE, 0, <<4, 6, 8, 3, 8, 7, 1, 0, 8, 2, 3, 4, 8, 7, 3>>)],
    [sym |-> "BY", val |-> Dec(FALSE, 1, <<2, 4, 3, 6, 3, 7, 6, 6, 4, 7, 6, 1, 9, 0, 6>>)],
    [sym |-> "ABX", val |-> Dec(FALSE, 0, <<>>)],
    [sym |-> "ABY", val |-> Dec(FALSE, 1, <<2, 7, 3, 4, 0, 9, 8, 8, 6, 1, 8, 3, 7, 9, 1>>)],
    [sym |-> "BCX", val |-> Dec(TRUE, 0, <<3, 7, 5, 5, 5, 3, 6, 2, 7, 3, 2, 3, 4, 5, 7>>)],
    [sym |-> "BCY", val |-> Dec(FALSE, 1, <<2, 9, 7, 2, 8, 1, 3, 0, 6, 9, 6, 3, 5, 0, 0>>)],
    [sym |-> "RBXY", val |-> Dec(FALSE, 1, <<2, 9, 9, 6, 4, 4, 0, 9, 0, 1, 1, 3, 3, 9, 6>>)],
    [sym |-> "CDX", val |-> Dec(FALSE, 0, <<7, 3, 6, 4, 7, 4, 6, 8, 9, 7, 7, 3, 9, 0, 7>>)],
    [sym |-> "CDY", val |-> Dec(FALSE, 1, <<2, 6, 7, 9, 7, 3, 7, 9, 5, 6, 4, 4, 1, 1, 1>>)],
    [sym |-> "CX", val |-> Dec(FALSE, 0, <<5, 9, 1, 4, 2, 7, 5, 1, 7, 9, 7, 8, 5, 9, 8>>)],
    [sym |-> "CY", val |-> Dec(FALSE, 1, <<2, 7, 1, 7, 9, 6, 5, 1, 4, 5, 1, 1, 8, 5, 7>>)],
    [sym |-> "CDR", val |-> Dec(FALSE, 1, <<2, 7, 7, 9, 0, 9, 8, 8, 6, 1, 8, 3, 7, 9, 1>>)],
    [sym |-> "DX", val |-> Dec(FALSE, 0, <<7, 7, 6, 2, 2, 5, 4, 1, 7, 9, 6, 2, 4, 7, 8>>)],
    [sym |-> "DY", val |-> Dec(FALSE, 1, <<2, 8, 2, 4, 3, 7, 5, 0, 1, 8, 1, 1, 0, 9, 3>>)],
    [sym |-> "TANG", val |-> Dec(TRUE, 0, <<3, 1, 4, 1, 5, 9, 2, 6, 5, 3, 5, 8, 9, 7, 9>>)],
    [sym |-> "EX", val |-> Dec(FALSE, 1, <<1, 0, 3, 2, 1, 4, 6, 4, 2, 7, 9, 9, 1, 4, 5>>)],
    [sym |-> "EY", val |-> Dec(FALSE, 1, <<2, 7, 4, 1, 2, 2, 1, 2, 4, 1, 2, 7, 2, 7, 0>>)],
    [sym |-> "FX", val |-> Dec(FALSE, 1, <<1, 1, 1, 9, 1, 0, 4, 9, 1, 5, 5, 5, 9, 9, 9>>)],
    [sym |-> "FY", val |-> Dec(FALSE, 1, <<2, 5, 4, 6, 5, 1, 2, 3, 6, 5, 3, 8, 7, 4, 6>>)],
    [sym |-> "EFX", val |-> Dec(FALSE, 0, <<9, 7, 9, 2, 8, 9, 9, 1, 0, 8, 5, 0, 3, 4, 7>>)],
    [sym |-> "EFY", val |-> Dec(FALSE, 1, <<2, 6, 0, 0, 8, 4, 2, 5, 0, 8, 5, 6, 8, 2, 3>>)],
    [sym |-> "GX", val |-> Dec(FALSE, 1, <<1, 0, 5, 3, 1, 3, 3, 1, 3, 1, 9, 9, 2, 1, 1>>)],
    [sym |-> "GY", val |-> Dec(FALSE, 1, <<2, 2, 4, 6, 3, 8, 1, 1, 4, 7, 2, 0, 6, 4, 6>>)],
    [sym |-> "FGX", val |-> Dec(FALSE, 1, <<2, 0, 5, 1, 2, 0, 4, 9, 4, 6, 9, 5, 7, 6, 0>>)],
    [sym |-> "FGY", val |-> Dec(FALSE, 1, <<2, 1, 8, 4, 3, 1, 1, 4, 1, 0, 8, 4, 9, 0, 0>>)]>>

(* the display of the variant with PD as a parameter (PD = 6.36619772368) *)
final_sol_eval_shown_PD ==
  <<[sym |-> "AX", val |-> Dec(TRUE, 0, <<4, 6, 8, 3, 8, 7, 1, 0, 8, 2, 3, 4, 8, 8, 8>>)],
    [sym |-> "AY", val |-> Dec(FALSE, 1, <<2, 4, 3, 6, 3, 7, 6, 6, 4, 7, 6, 2, 1, 1, 8>>)],
    [sym |-> "BX", val |-> Dec(FALSE, 0, <<4, 6, 8, 3, 8, 7, 1, 0, 8, 2, 3, 4, 8, 8, 8>>)],
    [sym |-> "BY", val |-> Dec(FALSE, 1, <<2, 4, 3, 6, 3, 7, 6, 6, 4, 7, 6, 2, 1, 1, 8>>)],
    [sym |-> "ABX", val |-> Dec(FALSE, 0, <<>>)],
    [sym |-> "ABY", val |-> Dec(FALSE, 1, <<2, 7, 3, 4, 0, 9, 8, 8, 6, 1, 8, 4, 0, 0, 0>>)],
    [sym |-> "BCX", val |-> Dec(TRUE, 0, <<3, 7, 5, 5, 5, 3, 6, 2, 7, 3, 2, 3, 4, 6, 9>>)],
    [sym |-> "BCY", val |-> Dec(FALSE, 1, <<2, 9, 7, 2, 8, 1, 3, 0, 6, 9, 6, 3, 7, 0, 7>>)],
    [sym |-> "RBXY", val |-> Dec(FALSE, 1, <<2, 9, 9, 6, 4, 4, 0, 9, 0, 1, 1, 3, 6, 0, 2>>)],
    [sym |-> "CDX", val |-> Dec(FALSE, 0, <<7, 3, 6, 4, 7, 4, 6, 8, 9, 7, 7, 3, 9, 1, 7>>)],
    [sym |-> "CDY", val |-> Dec(FALSE, 1, <<2, 6, 7, 9, 7, 3, 7, 9, 5, 6, 4, 4, 3, 2, 8>>)],
    [sym |-> "CX", val |-> Dec(FALSE, 0, <<5, 9, 1, 4, 2, 7, 5, 1, 7, 9, 7, 8, 6, 0, 6>>)],
    [sym |-> "CY", val |-> Dec(FALSE, 1, <<2, 7, 1, 7, 9, 6, 5, 1, 4, 5, 1, 2, 0, 7, 3>>)],
    [sym |-> "CDR", val |-> Dec(FALSE, 1, <<2, 7, 7, 9, 0, 9, 8, 8, 6, 1, 8, 4, 0, 0, 0>>)],
    [sym |-> "DX", val |-> Dec(FALSE, 0, <<7, 7, 6, 2, 2, 5, 4, 1, 7, 9, 6, 2, 4, 5, 9>>)],
    [sym |-> "DY", val |-> Dec(FALSE, 1, <<2, 8, 2, 4, 3, 7, 5, 0, 1, 8, 1, 1, 3, 1, 0>>)],
    [sym |-> "TANG", val |-> Dec(TRUE, 0, <<3, 1, 4, 1, 5, 9, 2, 6, 5, 3, 5, 8, 7, 7, 3>>)],
    [sym |-> "EX", val |-> Dec(FALSE, 1, <<1, 0, 3, 2, 1, 4, 6, 4, 2, 7, 9, 9, 1, 6, 1>>)],
    [sym |-> "EY", val |-> Dec(FALSE, 1, <<2, 7, 4, 1, 2, 2, 1, 2, 4, 1, 2, 7, 4, 8, 7>>)],
    [sym |-> "FX", val |-> Dec(FALSE, 1, <<1, 1, 1, 9, 1, 0, 4, 9, 1, 5, 5, 6, 0, 2, 0>>)],
    [sym |-> "FY", val |-> Dec(FALSE, 1, <<2, 5, 4, 6, 5, 1, 2, 3, 6, 5, 3, 8, 9, 6, 7>>)],
    [sym |-> "EFX", val |-> Dec(FALSE, 0, <<9, 7, 9, 2, 8, 9, 9, 1, 0, 8, 5, 0, 5, 3, 8>>)],
    [sym |-> "EFY", val |-> Dec(FALSE, 1, <<2, 6, 0, 0, 8, 4, 2, 5, 0, 8, 5, 7, 0, 3, 9>>)],
    [sym |-> "GX", val |-> Dec(FALSE, 1, <<1, 0, 5, 3, 1, 3, 3, 1, 3, 1, 9, 9, 2, 4, 1>>)],
    [sym |-> "GY", val |-> Dec(FALSE, 1, <<2, 2, 4, 6, 3, 8, 1, 1, 4, 7, 2, 0, 8, 6, 2>>)],
    [sym |-> "FGX", val |-> Dec(FALSE, 1, <<2, 0, 5, 1, 2, 0, 4, 9, 4, 6, 9, 5, 7, 9, 3>>)],
    [sym |-> "FGY", val |-> Dec(FALSE, 1, <<2, 1, 8, 4, 3, 1, 1, 4, 1, 0, 8, 5, 1, 5, 2>>)]>>

(***************************************************************************)
(* The notebook: its cells, run top to bottom.                             *)
(***************************************************************************)
VARIABLES
  pc,              \* the next cell to run
  vals,            \* the ParameterSet: the values of param_associations
  res_1_sol,       \* the hand-picked Stage 1 solution (its keys, in order)
  res_2_sol,       \* the hand-picked Stage 2 solution
  final_sol,       \* the ordered list of (symbol, closed form)
  final_sol_eval,  \* the copy the loop evaluates in place
  i,               \* the loop index: entries evaluated so far
  out,             \* the value the evaluation cell displays
  eval_is_sol,     \* final_sol_eval is final_sol: the two names, one list
  rtheta,          \* an angle
  rpts,            \* a point and its successive images by reflect_point
  dvals,           \* a ParameterSet
  dpc,             \* "start", or "done" once the two values below are computed
  dDelta,          \* Delta for dvals
  dRBXY,           \* the closed form of RBXY for dvals
  epc,             \* per evaluation: the statement it runs next
  eparams,         \* per evaluation: the ParameterSet it is for
  eiter,           \* per evaluation: its enumerate object (list, position)
  lists,           \* the list objects made by copy.deepcopy, by maker
  ref,             \* the list object the name final_sol_eval is bound to
  g_el,            \* the global el of the for statement
  ret,             \* per evaluation: the list its last line returns
  fsrc,            \* the file whose recorded display is read
  fdigits,         \* the number of significant digits kept
  fpos,            \* the entries of the display read so far
  fshown           \* the entries read, rounded to fdigits digits

pipeVars ==
  <<pc, vals, res_1_sol, res_2_sol, final_sol, final_sol_eval, i, out,
    eval_is_sol>>

reflVars == <<rtheta, rpts>>

deltaVars == <<dvals, dpc, dDelta, dRBXY>>

evalVars == <<epc, eparams, eiter, lists, ref, g_el, ret>>

fixVars == <<fsrc, fdigits, fpos, fshown>>

vars == <<pipeVars, reflVars, deltaVars, evalVars, fixVars>>

params == <<"RAB", "RBC", "RCD", "b", "h", "PLD", "t", "P">>

Params == {params[j] : j \in 1..Len(params)}

Symbols ==
  {"AX", "AY", "BX", "BY", "ABX", "ABY", "BCX", "BCY", "RBXY", "CX", "CY",
   "CDX", "CDY", "DX", "DY", "EX", "EY", "FX", "FY", "EFX", "EFY", "GX",
   "GY", "FGX", "FGY", "CDR", "TANG"}

(* a ParameterSet in the order of params; b and P are given in units of pi, *)
(* so that PD = P*t/pi and L are rational and b/PD is a multiple of pi      *)
ParameterSet(rab, rbc, rcd, b, h, pld, t, p) ==
  [RAB |-> rab, RBC |-> rbc, RCD |-> rcd, b |-> Mul(b, pi), h |-> h,
   PLD |-> pld, t |-> t, P |-> Mul(p, pi)]

(* the ParameterSets the notebook is run for *)
ParamSets ==
  { \* profiles with a solution (b/PD = pi/4 or -pi/4)
    ParameterSet(Num(1), Num(14), Num(1), Num(6), Num(6), Num(2), Num(4), Num(6)),
    ParameterSet(Num(1), Num(14), Num(1), Num(6), Num(6), Num(2), Num(2), Num(12)),
    ParameterSet(Num(1), Num(14), Num(1), Num(-6), Num(6), Num(2), Num(4), Num(6)),
    ParameterSet(Num(2), Num(7), Rat(1, 2), Num(5), Num(8), Num(1), Num(4), Num(5)),
    ParameterSet(Num(1), Num(14), Num(1), Num(4), Num(1), Num(3), Num(4), Num(4)),
    \* RAB = RBC, with b = 0 and with b # 0
    ParameterSet(Num(14), Num(14), Num(1), Num(0), Num(6), Num(2), Num(4), Num(6)),
    ParameterSet(Num(14), Num(14), Num(1), Num(6), Num(6), Num(2), Num(4), Num(6)),
    \* negative Stage 1 discriminant
    ParameterSet(Num(2), Num(3), Num(1), Num(6), Num(6), Num(2), Num(4), Num(6)),
    \* b = 0: BC on the y axis
    ParameterSet(Num(1), Num(14), Num(1), Num(0), Num(6), Num(2), Num(4), Num(6)),
    \* the Stage 2 circles do not meet
    ParameterSet(Num(1), Num(14), Num(1), Num(16), Num(25), Num(3), Num(4), Num(16)),
    \* C at the origin, CD at the origin
    ParameterSet(Num(9), Num(4), Num(1), Num(2), Num(8), Num(2), Num(4), Num(2)),
    ParameterSet(Num(8), Num(3), Num(1), Num(2), Num(6), Num(3), Num(4), Num(2)),
    \* PD/2 - PLD - RCD negative (-2 and -3), the Stage 2 circles meeting
    ParameterSet(Num(7), Num(2), Num(1), Num(2), Num(3), Num(5), Num(4), Num(2)),
    ParameterSet(Num(7), Num(2), Num(1), Num(2), Num(1), Num(6), Num(4), Num(2)) }

(* the symbols of the list, in order *)
Syms(sol) == {sol[j].sym : j \in 1..Len(sol)}

Entry(name) == [sym |-> name, form |-> name]

(* cells 6, 7: res_1 = sp.solve(equations_1, ...), res_1_sol = res_1[1] *)
SolveStage1 ==
  /\ pc = "stage1"
  /\ res_1_sol' = <<Entry("AX"), Entry("AY"), Entry("BX"), Entry("BY"),
                    Entry("ABX"), Entry("ABY"), Entry("BCX"), Entry("BCY"),
                    Entry("RBXY")>>
  /\ pc' = "stage2"
  /\ UNCHANGED <<vals, res_2_sol, final_sol, final_sol_eval, i, out, eval_is_sol>>
  /\ UNCHANGED <<reflVars, deltaVars, evalVars, fixVars>>

(* cells 9, 10: res_2 = sp.solve(equations_2, CDX, CDY), res_2_sol = res_2[0] *)
SolveStage2 ==
  /\ pc = "stage2"
  /\ res_2_sol' = <<Entry("CDX"), Entry("CDY")>>
  /\ pc' = "stage3"
  /\ UNCHANGED <<vals, res_1_sol, final_sol, final_sol_eval, i, out, eval_is_sol>>
  /\ UNCHANGED <<reflVars, deltaVars, evalVars, fixVars>>

(* Appended without its last entry *)
Appended_Mut ==
  <<Entry("CX"), Entry("CY"), Entry("CDR"), Entry("DX"), Entry("DY"),
    Entry("TANG"), Entry("EX"), Entry("EY"), Entry("FX"), Entry("FY"),
    Entry("EFX"), Entry("EFY"), Entry("GX"), Entry("GY"), Entry("FGX")>>

(* what cell 12 appends to the two solutions *)
Appended ==
  <<Entry("CX"), Entry("CY"), Entry("CDR"), Entry("DX"), Entry("DY"),
    Entry("TANG"), Entry("EX"), Entry("EY"), Entry("FX"), Entry("FY"),
    Entry("EFX"), Entry("EFY"), Entry("GX"), Entry("GY"), Entry("FGX"),
    Entry("FGY")>>

(* the Stage 2 solution placed after the entries that read it *)
BuildFinalSol_Mut(r1, r2) == r1 \o Appended \o r2

BuildFinalSol(r1, r2) == r1 \o r2 \o Appended

(* cell 12: final_sol = [...] + [...] binds the name to a new list *)
Stage3 ==
  /\ pc = "stage3"
  /\ final_sol' = BuildFinalSol(res_1_sol, res_2_sol)
  /\ eval_is_sol' = FALSE
  /\ pc' = "copy"
  /\ UNCHANGED <<vals, res_1_sol, res_2_sol, final_sol_eval, i, out>>
  /\ UNCHANGED <<reflVars, deltaVars, evalVars, fixVars>>

(* final_sol_eval = final_sol: no copy, a second name for the same list *)
DeepCopy_Alias ==
  /\ pc = "copy"
  /\ final_sol_eval' =
       [j \in 1..Len(final_sol) |->
          [sym |-> final_sol[j].sym, form |-> final_sol[j].form, val |-> Sym]]
  /\ i' = 0
  /\ eval_is_sol' = TRUE
  /\ pc' = "eval"
  /\ UNCHANGED <<vals, res_1_sol, res_2_sol, final_sol, out>>
  /\ UNCHANGED <<reflVars, deltaVars, evalVars, fixVars>>

(* the copy that leaves the loop counter of the previous run in place *)
DeepCopy_Mut ==
  /\ pc = "copy"
  /\ final_sol_eval' =
       [j \in 1..Len(final_sol) |->
          [sym |-> final_sol[j].sym, form |-> final_sol[j].form, val |-> Sym]]
  /\ i' = i
  /\ eval_is_sol' = FALSE
  /\ pc' = "eval"
  /\ UNCHANGED <<vals, res_1_sol, res_2_sol, final_sol, out>>
  /\ UNCHANGED <<reflVars, deltaVars, evalVars, fixVars>>

(* cell 13: final_sol_eval = copy.deepcopy(final_sol), a list of its own *)
DeepCopy ==
  /\ pc = "copy"
  /\ final_sol_eval' =
       [j \in 1..Len(final_sol) |->
          [sym |-> final_sol[j].sym, form |-> final_sol[j].form, val |-> Sym]]
  /\ i' = 0
  /\ eval_is_sol' = FALSE
  /\ pc' = "eval"
  /\ UNCHANGED <<vals, res_1_sol, res_2_sol, final_sol, out>>
  /\ UNCHANGED <<reflVars, deltaVars, evalVars, fixVars>>

(* .subs(param_associations).subs(final_sol_eval[:i]): the value of every  *)
(* symbol when entry i (0-based) is evaluated; a symbol that is neither a  *)
(* parameter nor among the first i entries stays free                      *)
Subs(pvals, sol, idx) ==
  [s \in Params \cup Symbols |->
     IF s \in Params THEN pvals[s]
     ELSE IF \E j \in 1..idx : sol[j].sym = s
          THEN sol[CHOOSE j \in 1..idx : sol[j].sym = s].val
          ELSE Sym]

(* sp.N(form.subs(param_associations).subs(sol[:idx])) *)
Eval(form, pvals, sol, idx) == N(Expr(form), Subs(pvals, sol, idx))

(* the symbols the closed form of name reads *)
Refs(name) == free_symbols(Expr(name))

(* final_sol_eval[i] = ... assigns into the list the name is bound to: a  *)
(* list sol that is that same list holds a number at idx afterwards        *)
Assigned(sol, same, idx) ==
  IF same
  THEN [sol EXCEPT ![idx] = [sym |-> sol[idx].sym, form |-> "num"]]
  ELSE sol

(* the loop run from the last entry to the first *)
NextIndex_Mut(idx) == Len(final_sol_eval) - idx

(* the index the loop visits after having evaluated idx entries *)
NextIndex(idx) == idx + 1

(* the loop writing every value to the first entry *)
EvalStep_Mut ==
  /\ pc = "eval"
  /\ i < Len(final_sol_eval)
  /\ LET el == final_sol_eval[NextIndex(i)]
     IN  final_sol_eval' =
           [final_sol_eval EXCEPT
              ![1] = [sym |-> el.sym, form |-> "num",
                      val |-> Eval(el.form, vals, final_sol_eval, i)]]
  /\ i' = i + 1
  /\ final_sol' = Assigned(final_sol, eval_is_sol, NextIndex(i))
  /\ UNCHANGED <<pc, vals, res_1_sol, res_2_sol, out, eval_is_sol>>
  /\ UNCHANGED <<reflVars, deltaVars, evalVars, fixVars>>

(* cell 13, one iteration:                                                  *)
(* final_sol_eval[i] = (el[0], sp.N(el[1].subs(...).subs(...)))             *)
EvalStep ==
  /\ pc = "eval"
  /\ i < Len(final_sol_eval)
  /\ LET j  == NextIndex(i)
         el == final_sol_eval[j]
     IN  final_sol_eval' =
           [final_sol_eval EXCEPT
              ![j] = [sym |-> el.sym, form |-> "num",
                      val |-> Eval(el.form, vals, final_sol_eval, i)]]
  /\ i' = i + 1
  /\ final_sol' = Assigned(final_sol, eval_is_sol, NextIndex(i))
  /\ UNCHANGED <<pc, vals, res_1_sol, res_2_sol, out, eval_is_sol>>
  /\ UNCHANGED <<reflVars, deltaVars, evalVars, fixVars>>

(* cell 13, last line: the cell displays final_sol_eval *)
Display ==
  /\ pc = "eval"
  /\ i = Len(final_sol_eval)
  /\ out' = final_sol_eval
  /\ pc' = "done"
  /\ UNCHANGED <<vals, res_1_sol, res_2_sol, final_sol, final_sol_eval, i, eval_is_sol>>
  /\ UNCHANGED <<reflVars, deltaVars, evalVars, fixVars>>

ReflIdle ==
  /\ rtheta = Num(0) /\ rpts = <<>>

DeltaIdle ==
  /\ dvals = ParameterSet(Num(1), Num(1), Num(1), Num(0), Num(1), Num(1), Num(1), Num(1))
  /\ dpc = "idle" /\ dDelta = Sym /\ dRBXY = Sym

Procs == {1, 2}

EvalIdle ==
  /\ epc = [p \in Procs |-> "idle"]
  /\ eparams = [p \in Procs |-> <<>>]
  /\ eiter = [p \in Procs |-> [obj |-> 0, pos |-> 0]]
  /\ lists = [p \in Procs |-> <<>>]
  /\ ref = 0
  /\ g_el = <<>>
  /\ ret = [p \in Procs |-> <<>>]

FixIdle ==
  /\ fsrc = "" /\ fdigits = 0 /\ fpos = 0 /\ fshown = <<>>

PipeIdle ==
  /\ pc = "idle"
  /\ vals = ParameterSet(Num(1), Num(1), Num(1), Num(0), Num(1), Num(1), Num(1), Num(1))
  /\ res_1_sol = <<>> /\ res_2_sol = <<>> /\ final_sol = <<>>
  /\ final_sol_eval = <<>> /\ i = 0 /\ out = <<>>
  /\ eval_is_sol = FALSE

(* cell 3 has set vals; nothing is solved yet *)
Init ==
  /\ pc = "stage1"
  /\ vals \in ParamSets
  /\ res_1_sol = <<>> /\ res_2_sol = <<>> /\ final_sol = <<>>
  /\ final_sol_eval = <<>> /\ i = 0 /\ out = <<>>
  /\ eval_is_sol = FALSE
  /\ ReflIdle
  /\ DeltaIdle
  /\ EvalIdle
  /\ FixIdle

Next ==
  \/ SolveStage1
  \/ SolveStage2
  \/ Stage3
  \/ DeepCopy
  \/ EvalStep
  \/ Display

Spec == Init /\ [][Next]_vars


(***************************************************************************)
(* reflect_point on its own: a point of the integer grid, an angle that is *)
(* a multiple of pi/8, and the successive images of the point.             *)
(***************************************************************************)
MaxCoord == 2

MaxEighths == 4

MaxApply == 2

Points == {<<Num(x), Num(y)>> : x, y \in -MaxCoord..MaxCoord}

Angles == {Mul(Rat(k, 8), pi) : k \in -MaxEighths..MaxEighths}

InitReflect ==
  /\ PipeIdle
  /\ DeltaIdle
  /\ EvalIdle
  /\ FixIdle
  /\ rtheta \in Angles
  /\ \E p \in Points : rpts = <<p>>

Reflect ==
  /\ Len(rpts) <= MaxApply
  /\ LET p == rpts[Len(rpts)]
         q == reflect_point(Number(p[1]), Number(p[2]), Number(rtheta))
     IN  rpts' = Append(rpts, <<N(q[1], <<>>), N(q[2], <<>>)>>)
  /\ UNCHANGED <<rtheta, pipeVars, deltaVars, evalVars, fixVars>>

NextReflect == Reflect

SpecReflect == InitReflect /\ [][NextReflect]_vars

(***************************************************************************)
(* The Stage 1 discriminant on its own, over a grid of ParameterSets with  *)
(* PD = 8 and b/PD a multiple of pi/12 whose sine is a single surd.        *)
(***************************************************************************)
MaxRAB == 3

MaxRBC == 8

MaxH == 3

MaxTwelfths == 6

DeltaGrid ==
  {ParameterSet(Num(rab), Num(rbc), Num(1), Rat(2 * k, 3), Num(hh), Num(1),
                Num(4), Num(2)) :
     rab \in 1..MaxRAB, rbc \in 1..MaxRBC, hh \in 1..MaxH,
     k \in {j \in -MaxTwelfths..MaxTwelfths : j % 2 = 0 \/ j % 3 = 0}}

InitDelta ==
  /\ PipeIdle
  /\ ReflIdle
  /\ EvalIdle
  /\ FixIdle
  /\ dvals \in DeltaGrid
  /\ dpc = "start" /\ dDelta = Sym /\ dRBXY = Sym

(* the evaluation of the RBXY entry, the first to take sqrt(Delta) alone *)
EvalRBXY ==
  /\ dpc = "start"
  /\ dDelta' = N(Delta, Subs(dvals, <<>>, 0))
  /\ dRBXY' = Eval("RBXY", dvals, <<>>, 0)
  /\ dpc' = "done"
  /\ UNCHANGED <<dvals, pipeVars, reflVars, evalVars, fixVars>>

NextDelta == EvalRBXY

SpecDelta == InitDelta /\ [][NextDelta]_vars


(***************************************************************************)
(* Stage 1 on its own: the notebook run up to the last Stage 1 entry, for  *)
(* the ParameterSets of DeltaGrid.                                         *)
(***************************************************************************)
InitStage1 ==
  /\ pc = "stage1"
  /\ vals \in DeltaGrid
  /\ res_1_sol = <<>> /\ res_2_sol = <<>> /\ final_sol = <<>>
  /\ final_sol_eval = <<>> /\ i = 0 /\ out = <<>>
  /\ eval_is_sol = FALSE
  /\ ReflIdle
  /\ DeltaIdle
  /\ EvalIdle
  /\ FixIdle

(* an iteration of the loop on a Stage 1 entry *)
EvalStage1 ==
  /\ pc = "eval"
  /\ i < Len(final_sol_eval)
  /\ final_sol_eval[NextIndex(i)].sym \in
       {"AX", "AY", "BX", "BY", "ABX", "ABY", "BCX", "BCY", "RBXY"}
  /\ EvalStep

NextStage1 ==
  \/ SolveStage1
  \/ SolveStage2
  \/ Stage3
  \/ DeepCopy
  \/ EvalStage1

SpecStage1 == InitStage1 /\ [][NextStage1]_vars

(***************************************************************************)
(* The notebook run again.  The kernel keeps every global of the previous  *)
(* run; cell 2 is edited to another ParameterSet and the cells are run     *)
(* from the top.                                                           *)
(***************************************************************************)
(* cell 2 run again with the ParameterSet v, after a complete run *)
Rerun(v) ==
  /\ pc = "done"
  /\ vals' = v
  /\ pc' = "stage1"
  /\ UNCHANGED <<res_1_sol, res_2_sol, final_sol, final_sol_eval, i, out,
                 eval_is_sol>>
  /\ UNCHANGED <<reflVars, deltaVars, evalVars, fixVars>>

(* cells 2 and 13 run again with the ParameterSet v, nothing solved again *)
Reevaluate(v) ==
  /\ pc = "done"
  /\ vals' = v
  /\ pc' = "copy"
  /\ UNCHANGED <<res_1_sol, res_2_sol, final_sol, final_sol_eval, i, out,
                 eval_is_sol>>
  /\ UNCHANGED <<reflVars, deltaVars, evalVars, fixVars>>

NextRerun ==
  \/ SolveStage1
  \/ SolveStage2
  \/ Stage3
  \/ DeepCopy
  \/ EvalStep
  \/ Display
  \/ \E v \in ParamSets : Rerun(v)
  \/ \E v \in ParamSets : Reevaluate(v)

SpecRerun == Init /\ [][NextRerun]_vars

(***************************************************************************)
(* Two evaluations in one interpreter.  The notebook has no function that  *)
(* takes a ParameterSet: an evaluation is the statements of cell 2 and of  *)
(* cell 13, run on the module's globals vals / param_associations,         *)
(* final_sol_eval, i and el.  Each evaluation p runs them in order, for    *)
(* its own ParameterSet eparams[p]; the two interleave statement by        *)
(* statement.  final_sol is cut to its first MaxEntries entries.           *)
(***************************************************************************)
MaxEntries == 3

(* the ParameterSets the two evaluations are for *)
EvalSets ==
  { ParameterSet(Num(1), Num(14), Num(1), Num(6), Num(6), Num(2), Num(4), Num(6)),
    ParameterSet(Num(7), Num(2), Num(1), Num(2), Num(3), Num(5), Num(4), Num(2)) }

(* copy.deepcopy(final_sol) *)
deepcopy(sol) ==
  [j \in 1..Len(sol) |->
     [sym |-> sol[j].sym, form |-> sol[j].form, val |-> Sym]]

InitInterleave ==
  /\ pc = "copy"
  /\ vals \in EvalSets
  /\ res_1_sol = <<Entry("AX"), Entry("AY"), Entry("BX"), Entry("BY"),
                   Entry("ABX"), Entry("ABY"), Entry("BCX"), Entry("BCY"),
                   Entry("RBXY")>>
  /\ res_2_sol = <<Entry("CDX"), Entry("CDY")>>
  /\ final_sol = SubSeq(BuildFinalSol(res_1_sol, res_2_sol), 1, MaxEntries)
  /\ final_sol_eval = <<>> /\ i = 0 /\ out = <<>>
  /\ eval_is_sol = FALSE
  /\ ReflIdle
  /\ DeltaIdle
  /\ epc = [p \in Procs |-> "params"]
  /\ eparams \in {f \in [Procs -> EvalSets] : f[1] # f[2]}
  /\ eiter = [p \in Procs |-> [obj |-> 0, pos |-> 0]]
  /\ lists = [p \in Procs |-> <<>>]
  /\ ref = 0
  /\ g_el = <<>>
  /\ ret = [p \in Procs |-> <<>>]
  /\ FixIdle

(* cell 2: vals = [...]; param_associations = list(zip(params, vals)) *)
SetParams(p) ==
  /\ epc[p] = "params"
  /\ vals' = eparams[p]
  /\ epc' = [epc EXCEPT ![p] = "copy"]
  /\ UNCHANGED <<pc, res_1_sol, res_2_sol, final_sol, final_sol_eval, i, out,
                 eval_is_sol>>
  /\ UNCHANGED <<eparams, eiter, lists, ref, g_el, ret>>
  /\ UNCHANGED <<reflVars, deltaVars, fixVars>>

(* cell 13: final_sol_eval = copy.deepcopy(final_sol) binds the global     *)
(* name to a new list                                                      *)
Copy(p) ==
  /\ epc[p] = "copy"
  /\ lists' = [lists EXCEPT ![p] = deepcopy(final_sol)]
  /\ ref' = p
  /\ epc' = [epc EXCEPT ![p] = "for"]
  /\ UNCHANGED <<pipeVars, eparams, eiter, g_el, ret>>
  /\ UNCHANGED <<reflVars, deltaVars, fixVars>>

(* cell 13: enumerate(final_sol_eval), over the list the name is bound to  *)
(* now                                                                     *)
Enumerate(p) ==
  /\ epc[p] = "for"
  /\ eiter' = [eiter EXCEPT ![p] = [obj |-> ref, pos |-> 0]]
  /\ epc' = [epc EXCEPT ![p] = "next"]
  /\ UNCHANGED <<pipeVars, eparams, lists, ref, g_el, ret>>
  /\ UNCHANGED <<reflVars, deltaVars, fixVars>>

(* cell 13: for i, el in ...: the enumerate object gives its next pair to  *)
(* the globals i and el, or the loop ends                                  *)
NextPair(p) ==
  /\ epc[p] = "next"
  /\ IF eiter[p].pos < Len(lists[eiter[p].obj])
     THEN /\ i' = eiter[p].pos
          /\ g_el' = lists[eiter[p].obj][eiter[p].pos + 1]
          /\ eiter' = [eiter EXCEPT ![p].pos = @ + 1]
          /\ epc' = [epc EXCEPT ![p] = "body"]
     ELSE /\ epc' = [epc EXCEPT ![p] = "return"]
          /\ UNCHANGED <<i, g_el, eiter>>
  /\ UNCHANGED <<pc, vals, res_1_sol, res_2_sol, final_sol, final_sol_eval, out,
                 eval_is_sol>>
  /\ UNCHANGED <<eparams, lists, ref, ret>>
  /\ UNCHANGED <<reflVars, deltaVars, fixVars>>

(* cell 13, the body: final_sol_eval[i] = (el[0],                          *)
(*   sp.N(el[1].subs(param_associations).subs(final_sol_eval[:i])));       *)
(* an el[1] that is a number already has nothing to substitute             *)
Body(p) ==
  /\ epc[p] = "body"
  /\ lists' =
       [lists EXCEPT
          ![ref][i + 1] =
             [sym |-> g_el.sym, form |-> "num",
              val |-> IF g_el.form = "num" THEN g_el.val
                      ELSE Eval(g_el.form, vals, lists[ref], i)]]
  /\ epc' = [epc EXCEPT ![p] = "next"]
  /\ UNCHANGED <<pipeVars, eparams, eiter, ref, g_el, ret>>
  /\ UNCHANGED <<reflVars, deltaVars, fixVars>>

(* cell 13, last line: the value of final_sol_eval *)
Return(p) ==
  /\ epc[p] = "return"
  /\ ret' = [ret EXCEPT ![p] = lists[ref]]
  /\ epc' = [epc EXCEPT ![p] = "done"]
  /\ UNCHANGED <<pipeVars, eparams, eiter, lists, ref, g_el>>
  /\ UNCHANGED <<reflVars, deltaVars, fixVars>>

NextInterleave ==
  \E p \in Procs :
    \/ SetParams(p)
    \/ Copy(p)
    \/ Enumerate(p)
    \/ NextPair(p)
    \/ Body(p)
    \/ Return(p)

SpecInterleave == InitInterleave /\ [][NextInterleave]_vars

(***************************************************************************)
(* Reading the recorded display of the reference fixture, entry by entry,  *)
(* to a given number of significant digits.                                *)
(***************************************************************************)
MaxDigits == 12

RECURSIVE StripZeros(_)
StripZeros(d) ==
  IF d = <<>> THEN d
  ELSE IF d[Len(d)] = 0 THEN StripZeros(SubSeq(d, 1, Len(d) - 1))
  ELSE d

(* one unit added in the last place of the digits d, not all of them 9 *)
RECURSIVE Incr(_)
Incr(d) ==
  IF d[Len(d)] < 9 THEN [d EXCEPT ![Len(d)] = @ + 1]
  ELSE Append(Incr(SubSeq(d, 1, Len(d) - 1)), 0)

(* the decimal x rounded to k significant digits, half away from zero *)
RoundSig(x, k) ==
  IF Len(x.d) <= k THEN Dec(x.neg, x.e, StripZeros(x.d))
  ELSE LET keep == SubSeq(x.d, 1, k)
       IN  IF x.d[k + 1] < 5 THEN Dec(x.neg, x.e, StripZeros(keep))
           ELSE IF \A j \in 1..k : keep[j] = 9 THEN Dec(x.neg, x.e + 1, <<1>>)
           ELSE Dec(x.neg, x.e, StripZeros(Incr(keep)))

(* the decimal x rounded to k digits after the point *)
RoundDec(x, k) == IF k + x.e >= 1 THEN RoundSig(x, k + x.e) ELSE x

(* the values the fixture is stated to yield *)
Reference ==
  <<[sym |-> "AX", val |-> Dec(TRUE, 0, <<4, 6, 8, 3, 8, 7, 1, 0, 8>>)],
    [sym |-> "BY", val |-> Dec(FALSE, 1, <<2, 4, 3, 6, 3, 7, 6, 6, 4, 8>>)],
    [sym |-> "ABY", val |-> Dec(FALSE, 1, <<2, 7, 3, 4, 0, 9, 8, 8, 6, 2>>)],
    [sym |-> "BCY", val |-> Dec(FALSE, 1, <<2, 9, 7, 2, 8, 1, 3, 0, 7, 0>>)],
    [sym |-> "RBXY", val |-> Dec(FALSE, 1, <<2, 9, 9, 6, 4, 4, 0, 9, 0, 1>>)],
    [sym |-> "CDX", val |-> Dec(FALSE, 0, <<7, 3, 6, 4, 7, 4, 6, 9, 0>>)],
    [sym |-> "CX", val |-> Dec(FALSE, 0, <<5, 9, 1, 4, 2, 7, 5, 1, 8>>)],
    [sym |-> "DX", val |-> Dec(FALSE, 0, <<7, 7, 6, 2, 2, 5, 4, 1, 8>>)],
    [sym |-> "TANG", val |-> Dec(TRUE, 0, <<3, 1, 4, 1, 5, 9, 2, 6, 5>>)],
    [sym |-> "EX", val |-> Dec(FALSE, 1, <<1, 0, 3, 2, 1, 4, 6, 4, 2, 8>>)],
    [sym |-> "FY", val |-> Dec(FALSE, 1, <<2, 5, 4, 6, 5, 1, 2, 3, 6, 5>>)],
    [sym |-> "GY", val |-> Dec(FALSE, 1, <<2, 2, 4, 6, 3, 8, 1, 1, 4, 7>>)],
    [sym |-> "FGX", val |-> Dec(FALSE, 1, <<2, 0, 5, 1, 2, 0, 4, 9, 4, 7>>)]>>

(* the display recorded in the file src *)
Shown(src) ==
  IF src = "part_000" THEN final_sol_eval_shown_PD ELSE final_sol_eval_shown

InitFixture ==
  /\ PipeIdle
  /\ ReflIdle
  /\ DeltaIdle
  /\ EvalIdle
  /\ fsrc \in {"pulley_eqns.ipynb", "part_000"}
  /\ fdigits \in 1..MaxDigits
  /\ fpos = 0
  /\ fshown = <<>>

(* the next entry of the display, read to fdigits significant digits *)
ReadEntry ==
  /\ fpos < Len(Shown(fsrc))
  /\ fshown' = Append(fshown,
                      [sym |-> Shown(fsrc)[fpos + 1].sym,
                       val |-> RoundSig(Shown(fsrc)[fpos + 1].val, fdigits)])
  /\ fpos' = fpos + 1
  /\ UNCHANGED <<fsrc, fdigits, pipeVars, reflVars, deltaVars, evalVars>>

NextFixture == ReadEntry

SpecFixture == InitFixture /\ [][NextFixture]_vars

(***************************************************************************)
(* Vocabulary of the properties.                                           *)
(***************************************************************************)
Negative(a) == a.k = "fin" /\ a.n < 0

Positive(a) == a.k = "fin" /\ a.n > 0

NonNegative(a) == a.k = "fin" /\ a.n >= 0

(* the entry of sol (a list with values) for the symbol name *)
Val(sol, name) == sol[CHOOSE j \in 1..Len(sol) : sol[j].sym = name].val

(* entry j of final_sol_eval has been replaced by its value *)
Evaluated(j) == final_sol_eval[j].form = "num"

AllFinite(sol) == \A j \in 1..Len(sol) : sol[j].val.k = "fin"

(* the unknowns each stage solves for or appends *)
Stage1Symbols ==
  {"AX", "AY", "BX", "BY", "ABX", "ABY", "BCX", "BCY", "RBXY"}

Stage2Symbols == {"CDX", "CDY", "CX", "CY", "CDR", "DX", "DY"}

StageOf(s) ==
  IF s \in Stage1Symbols THEN 1 ELSE IF s \in Stage2Symbols THEN 2 ELSE 3

(* the position of a cell in the notebook's top-to-bottom run *)
Rank(p) ==
  CASE p = "stage1" -> 1
    [] p = "stage2" -> 2
    [] p = "stage3" -> 3
    [] p = "copy" -> 4
    [] p = "eval" -> 5
    [] p = "done" -> 6
    [] OTHER -> 0

(* the catalogue of the Named Point Set: twelve points and three scalars *)
PointCatalogue ==
  {<<"AX", "AY">>, <<"BX", "BY">>, <<"ABX", "ABY">>, <<"BCX", "BCY">>,
   <<"CDX", "CDY">>, <<"CX", "CY">>, <<"DX", "DY">>, <<"EX", "EY">>,
   <<"FX", "FY">>, <<"EFX", "EFY">>, <<"GX", "GY">>, <<"FGX", "FGY">>}

Scalars == {"RBXY", "CDR", "TANG"}

(* the stated preconditions on a ParameterSet: finite inputs, positive      *)
(* lengths, RAB # RBC, b any real                                           *)
Preconditions(v) ==
  /\ \A s \in Params : IsFin(v[s])
  /\ \A s \in Params \ {"b"} : Positive(v[s])
  /\ v.RAB # v.RBC

(* the Stage 1 discriminant and L for the ParameterSet v *)
DeltaOf(v) == N(Delta, Subs(v, <<>>, 0))

LOf(v) == N(L_sub, Subs(v, <<>>, 0))

(* RBC exceeds RAB + 2L, with L > 0 *)
FarRBC(v) ==
  /\ Positive(LOf(v))
  /\ Positive(Sub(v.RBC, Add(v.RAB, Mul(Num(2), LOf(v)))))

Origin == <<Num(0), Num(0)>>

(* every evaluation of the pipeline stays inside the model's numbers *)
NumbersExact ==
  \A j \in 1..Len(final_sol_eval) :
    final_sol_eval[j].val.k \in {"fin", "zoo", "nan", "cplx", "sym"}

(* the squared distance between the points (ax, ay) and (bx, by) *)
Dist2(ax, ay, bx, by) == Add(Pow(Sub(ax, bx), 2), Pow(Sub(ay, by), 2))

(* the value the loop has stored for the symbol name *)
V(name) == Val(final_sol_eval, name)

(* PD_sub with the division by pi lost *)
PD_sub_Mut == Times(Symbol("P"), Symbol("t"))

PD_sub == Quot(Times(Symbol("P"), Symbol("t")), Pi)

(* the radius of the circle about the origin in equations_2, and its value *)
(* for the ParameterSet v                                                  *)
RadiusCD ==
  Plus(Quot(PD_sub, Integer(2)),
       Plus(Minus(Symbol("PLD")), Minus(Symbol("RCD"))))

RadiusCDOf(v) == N(RadiusCD, Subs(v, <<>>, 0))

(* Stage 2's selected root is a real point *)
RealCD == IsFin(V("CDX")) /\ IsFin(V("CDY"))

(* the cross and the dot product of the vectors (ax, ay) and (bx, by) *)
Cross(ax, ay, bx, by) == Sub(Mul(ax, by), Mul(ay, bx))

Dot(ax, ay, bx, by) == Add(Mul(ax, bx), Mul(ay, by))

(* the position of the symbol name in the list sol *)
Index(sol, name) == CHOOSE j \in 1..Len(sol) : sol[j].sym = name

(* the reflections cell 12 appends: image X, image Y, source X, source Y *)
Reflections ==
  <<<<"EX", "EY", "DX", "DY">>, <<"FX", "FY", "CX", "CY">>,
    <<"EFX", "EFY", "CDX", "CDY">>, <<"GX", "GY", "BX", "BY">>,
    <<"FGX", "FGY", "BCX", "BCY">>>>

(* reflect_point called with the numbers x, y, theta *)
ReflectValue(x, y, theta) ==
  LET r == reflect_point(Number(x), Number(y), Number(theta))
  IN  <<N(r[1], <<>>), N(r[2], <<>>)>>

(* PD for the ParameterSet v *)
PDOf(v) == N(PD_sub, Subs(v, <<>>, 0))

(* the loop of cell 13 run on the list sol from entry idx on *)
RECURSIVE EvalFrom(_, _, _)
EvalFrom(sol, v, idx) ==
  IF idx >= Len(sol) THEN sol
  ELSE EvalFrom([sol EXCEPT
                   ![idx + 1] = [sym |-> sol[idx + 1].sym, form |-> "num",
                                 val |-> Eval(sol[idx + 1].form, v, sol, idx)]],
                v, idx + 1)

(* what the notebook displays for the ParameterSet v in a fresh kernel *)
FreshRun(v) ==
  LET sol == BuildFinalSol(
               <<Entry("AX"), Entry("AY"), Entry("BX"), Entry("BY"),
                 Entry("ABX"), Entry("ABY"), Entry("BCX"), Entry("BCY"),
                 Entry("RBXY")>>,
               <<Entry("CDX"), Entry("CDY")>>)
  IN  EvalFrom([j \in 1..Len(sol) |->
                  [sym |-> sol[j].sym, form |-> sol[j].form, val |-> Sym]],
               v, 0)

(* the variant's param_associations: the ParameterSet v and the value pd    *)
(* for PD                                                                   *)
WithPD(v, pd) ==
  [s \in Params \cup {"PD"} |-> IF s = "PD" THEN pd ELSE v[s]]

(* the variant's loop continued from the values done of its first entries, *)
(* under the param_associations pvals                                      *)
RECURSIVE EvalVariant(_, _)
EvalVariant(pvals, done) ==
  IF Len(done) >= Len(final_sol_PD) THEN done
  ELSE LET n == Len(done) + 1
           v == [s \in DOMAIN pvals \cup Symbols |->
                   IF s \in DOMAIN pvals THEN pvals[s]
                   ELSE IF \E j \in 1..Len(done) : done[j].sym = s
                        THEN done[CHOOSE j \in 1..Len(done) : done[j].sym = s].val
                        ELSE Sym]
       IN  EvalVariant(pvals,
                       Append(done, [sym |-> final_sol_PD[n].sym,
                                     val |-> N(final_sol_PD[n].form, v)]))

(***************************************************************************)
(* Properties.                                                             *)
(***************************************************************************)

(* C1: every closed form of final_sol references only parameters and       *)
(* entries at a strictly smaller index; when the loop is about to evaluate *)
(* an entry, every symbol that entry reads is a parameter or an entry      *)
(* already replaced by its value, and no value computed so far has a       *)
(* symbol left free.                                                       *)
C1_ReferencesPrecede ==
  /\ \A j \in 1..Len(final_sol) :
       Refs(final_sol[j].form) \subseteq
         Params \cup {final_sol[k].sym : k \in 1..(j - 1)}
  /\ (pc = "eval" /\ i < Len(final_sol_eval)) =>
       \A s \in Refs(final_sol_eval[NextIndex(i)].form) \ Params :
         \E k \in 1..i :
           final_sol_eval[k].sym = s /\ Evaluated(k)
  /\ pc \in {"eval", "done"} =>
       \A j \in 1..Len(final_sol_eval) :
         Evaluated(j) => final_sol_eval[j].val.k # "sym"

(* the loop is about to evaluate EX, which reads DX, DY and TANG *)
C1_Witness ==
  /\ pc = "eval" /\ i = 17
  /\ final_sol_eval[18].sym = "EX" /\ ~Evaluated(18)
  /\ Refs("EX") = {"DX", "DY", "TANG"}
  /\ \A k \in 1..17 : Evaluated(k) /\ final_sol_eval[k].val.k = "fin"

(* C2: the cells run in the order Stage 1, Stage 2, Stage 3, copy,         *)
(* evaluation, display, each entered once and never again; no closed form  *)
(* reads a symbol of a later stage, and during evaluation no entry of a    *)
(* later stage has its value while an entry of an earlier stage has not.   *)
C2_StagesForward ==
  /\ [][Rank(pc') = Rank(pc) + 1 \/ (pc' = pc /\ pc = "eval")]_vars
  /\ [](/\ (res_1_sol # <<>>) = (Rank(pc) > 1)
        /\ (res_2_sol # <<>>) = (Rank(pc) > 2)
        /\ (final_sol # <<>>) = (Rank(pc) > 3)
        /\ \A j \in 1..Len(final_sol) :
             \A s \in Refs(final_sol[j].form) \ Params :
               StageOf(s) <= StageOf(final_sol[j].sym)
        /\ \A j \in 1..Len(final_sol) :
             StageOf(final_sol[j].sym) = 2 =>
               Refs(final_sol[j].form) \subseteq
                 Params \cup Stage1Symbols \cup Stage2Symbols
        /\ \A a, c \in 1..Len(final_sol_eval) :
             (Evaluated(a) /\ ~Evaluated(c)) =>
               StageOf(final_sol_eval[a].sym) <= StageOf(final_sol_eval[c].sym))

(* Stages 1 and 2 are evaluated and finite, Stage 3 is about to start *)
C2_Witness ==
  /\ pc = "eval" /\ i = 16
  /\ final_sol_eval[17].sym = "TANG" /\ ~Evaluated(17)
  /\ \A k \in 1..16 :
       /\ Evaluated(k)
       /\ StageOf(final_sol_eval[k].sym) < 3
       /\ final_sol_eval[k].val.k = "fin"

(* C3, as claimed: when a stage fails (RAB = RBC, a negative discriminant, *)
(* a reflection source at the origin) nothing is returned to the caller.   *)
C3_AllOrNothing ==
  (/\ pc = "done"
   /\ \/ vals.RAB = vals.RBC
      \/ Negative(DeltaOf(vals))
      \/ \E p \in {<<"DX", "DY">>, <<"CX", "CY">>, <<"CDX", "CDY">>,
                   <<"BX", "BY">>, <<"BCX", "BCY">>} :
           <<Val(out, p[1]), Val(out, p[2])>> = Origin)
    => out = <<>>

(* C4, as claimed: with RAB = RBC no NaN and no infinity is produced as    *)
(* the value of AX, AY, BX or BY.                                          *)
C4_EqualRadiiRejected ==
  vals.RAB = vals.RBC =>
    \A j \in 1..Len(final_sol_eval) :
      (final_sol_eval[j].sym \in {"AX", "AY", "BX", "BY"} /\ Evaluated(j)) =>
        final_sol_eval[j].val.k \notin {"nan", "zoo"}

(* C5, as claimed: with a negative Stage 1 discriminant no complex and no  *)
(* NaN value of RBXY, BCX, BCY, AX, AY, BX, BY is produced.                *)
C5_NegativeDeltaRejected ==
  (pc \in {"eval", "done"} /\ Negative(DeltaOf(vals))) =>
    \A j \in 1..Len(final_sol_eval) :
      (/\ final_sol_eval[j].sym \in
            {"RBXY", "BCX", "BCY", "AX", "AY", "BX", "BY"}
       /\ Evaluated(j)) =>
        final_sol_eval[j].val.k \notin {"cplx", "nan"}

(* C6, as claimed: RBC > RAB + 2L with L > 0 makes Delta negative.         *)
C6_FarRBCNegative ==
  (dpc = "done" /\ FarRBC(dvals)) => Negative(dDelta)

(* C6, amended: RBC > RAB + 2L with L > 0 makes Delta positive and RBXY    *)
(* real; Delta is negative only if (RAB - RBC)^2 < L^2.                    *)
C6_FarRBCPositive ==
  dpc = "done" =>
    /\ FarRBC(dvals) =>
         Positive(dDelta) /\ dRBXY.k \notin {"cplx", "nan", "zoo", "sym"}
    /\ Negative(dDelta) =>
         /\ Negative(Sub(Pow(Sub(dvals.RAB, dvals.RBC), 2),
                         Pow(LOf(dvals), 2)))
         /\ dRBXY.k = "cplx"

(* RBC = 8 > RAB + 2L = 5 with sin(b/PD)^2 strictly between 0 and 1 *)
C6_Witness ==
  /\ dpc = "done"
  /\ FarRBC(dvals)
  /\ dvals.RAB = Num(1) /\ dvals.RBC = Num(8) /\ LOf(dvals) = Num(2)
  /\ dvals.b = Mul(Num(2), pi)
  /\ dDelta = Num(45)

(* C7, as claimed: the image of the origin is neither (0, 0) nor a NaN     *)
(* pair (an error is signalled instead).                                   *)
C7_OriginSignalled ==
  (Len(rpts) >= 2 /\ rpts[1] = Origin) =>
    rpts[2] \notin {Origin, <<NaN, NaN>>}

(* C8, as claimed: for a ParameterSet meeting the preconditions every      *)
(* output entry is a finite real.                                          *)
C8_FiniteOrError ==
  (pc = "done" /\ Preconditions(vals)) => AllFinite(out)

(* C9, as claimed: the output holds 13 coordinate pairs and the 3 scalars. *)
C9_ThirteenPairs ==
  (pc = "done" /\ AllFinite(out)) =>
    /\ Scalars \subseteq Syms(out)
    /\ Cardinality(Syms(out) \ Scalars) = 2 * 13

(* C9, amended: the output is exactly the 12 coordinate pairs of the       *)
(* catalogue and the 3 scalars, 27 entries, each name exactly once.        *)
C9_TwelvePairs ==
  pc = "done" =>
    /\ out = final_sol_eval
    /\ Len(out) = 27
    /\ Cardinality(Syms(out)) = Len(out)
    /\ Cardinality(PointCatalogue) = 12
    /\ Syms(out) = UNION {{p[1], p[2]} : p \in PointCatalogue} \cup Scalars
    /\ \A j \in 1..Len(out) : Evaluated(j)

(* a run that ends with every entry finite *)
C9_Witness ==
  /\ pc = "done" /\ AllFinite(out) /\ Len(out) = 27
  /\ Val(out, "AX") = Rat(-12, 13) /\ Val(out, "FGY") = Num(-12)
  /\ Val(out, "TANG") = Mul(Rat(-1, 4), pi)

(* C10, as claimed: reflecting twice gives back any point but the origin.  *)
C10_Involution ==
  \A k \in 1..Len(rpts) :
    (k + 2 <= Len(rpts) /\ rpts[k] # Origin) => rpts[k + 2] = rpts[k]

(* C10, amended: reflecting twice gives back a point other than the origin *)
(* when the point and its image both have y >= 0.                          *)
C10_InvolutionUpperHalf ==
  \A k \in 1..Len(rpts) :
    (/\ k + 2 <= Len(rpts)
     /\ rpts[k] # Origin
     /\ NonNegative(rpts[k][2])
     /\ NonNegative(rpts[k + 1][2])) => rpts[k + 2] = rpts[k]

(* (1, 2) reflected across the ray at pi/8 and back, both images with y > 0 *)
C10_Witness ==
  /\ Len(rpts) >= 3
  /\ rtheta = Mul(Rat(1, 8), pi)
  /\ rpts[1] = <<Num(1), Num(2)>>
  /\ Positive(rpts[2][2])
  /\ rpts[2] # rpts[1]
  /\ rpts[3] = rpts[1]

(* C11: whenever the loop has evaluated AX and BX (AY and BY) to real      *)
(* numbers for a ParameterSet meeting the preconditions, AX = -BX          *)
(* (AY = BY).                                                              *)
C11_MirrorSymmetry ==
  (pc = "eval" /\ Preconditions(vals)) =>
    /\ (i >= 3 /\ IsFin(Val(final_sol_eval, "AX"))
               /\ IsFin(Val(final_sol_eval, "BX"))) =>
         Val(final_sol_eval, "AX") = Neg(Val(final_sol_eval, "BX"))
    /\ (i >= 4 /\ IsFin(Val(final_sol_eval, "AY"))
               /\ IsFin(Val(final_sol_eval, "BY"))) =>
         Val(final_sol_eval, "AY") = Val(final_sol_eval, "BY")
    /\ (i >= 4 /\ IsFin(Val(final_sol_eval, "AX"))) =>
         /\ IsFin(Val(final_sol_eval, "BX"))
         /\ IsFin(Val(final_sol_eval, "AY"))
         /\ IsFin(Val(final_sol_eval, "BY"))

(* A and B off the y axis, with an irrational x coordinate (b/PD = pi/6) *)
C11_Witness ==
  /\ pc = "eval" /\ i >= 4
  /\ Preconditions(vals)
  /\ vals.b = Mul(Rat(4, 3), pi)
  /\ Val(final_sol_eval, "AX").k = "fin"
  /\ Val(final_sol_eval, "AX").m = 3
  /\ Val(final_sol_eval, "AX") = Neg(Val(final_sol_eval, "BX"))
  /\ Positive(Val(final_sol_eval, "AY"))
  /\ Val(final_sol_eval, "AY") = Val(final_sol_eval, "BY")

(* C13: for a ParameterSet meeting the preconditions with Delta >= 0, once *)
(* the Stage 1 entries are evaluated, AB = (0, L), and B is at distance    *)
(* RAB from AB and at distance RBC from BC (whenever B is real and inside  *)
(* the model's numbers).                                                   *)
C13_TangencyDistances ==
  (pc = "eval" /\ i >= 8 /\ Preconditions(vals) /\ ~Negative(DeltaOf(vals))) =>
    /\ V("ABX") = Num(0)
    /\ V("ABY") = LOf(vals)
    /\ IsFin(V("BX")) =>
         /\ Dist2(V("BX"), V("BY"), V("ABX"), V("ABY")) = Pow(vals.RAB, 2)
         /\ Dist2(V("BX"), V("BY"), V("BCX"), V("BCY")) = Pow(vals.RBC, 2)

(* B and BC off the y axis with irrational x coordinates, Delta > 0 *)
C13_Witness ==
  /\ pc = "eval" /\ i = 9
  /\ Preconditions(vals)
  /\ Positive(DeltaOf(vals))
  /\ V("BX").k = "fin" /\ V("BX").m = 3
  /\ V("BCX").k = "fin" /\ V("BCX").m = 3
  /\ Dist2(V("BX"), V("BY"), V("BCX"), V("BCY")) = Pow(vals.RBC, 2)
  /\ Dist2(V("BX"), V("BY"), V("ABX"), V("ABY")) = Pow(vals.RAB, 2)

(* C12 as stated: for a ParameterSet meeting the preconditions whose       *)
(* selected root CD is real, CDR equals PD/2 - PLD - RCD, whatever its     *)
(* sign.                                                                   *)
C12_CDRSigned ==
  (pc = "eval" /\ i >= 14 /\ Preconditions(vals) /\ RealCD) =>
    V("CDR") = RadiusCDOf(vals)

(* C12: for a ParameterSet meeting the preconditions whose selected root   *)
(* CD is real, CD is at distance RBC + RCD from BC, |CD|^2 equals          *)
(* (PD/2 - PLD - RCD)^2, and CDR is the absolute value of                  *)
(* PD/2 - PLD - RCD.                                                       *)
C12_CircleEquations ==
  (pc = "eval" /\ i >= 14 /\ Preconditions(vals) /\ RealCD) =>
    /\ Dist2(V("CDX"), V("CDY"), V("BCX"), V("BCY")) =
         Pow(Add(vals.RBC, vals.RCD), 2)
    /\ Add(Pow(V("CDX"), 2), Pow(V("CDY"), 2)) = Pow(RadiusCDOf(vals), 2)
    /\ NonNegative(V("CDR"))
    /\ Pow(V("CDR"), 2) = Pow(RadiusCDOf(vals), 2)

(* a real root with an irrational coordinate where PD/2 - PLD - RCD < 0 *)
C12_Witness ==
  /\ pc = "eval" /\ i >= 14
  /\ Preconditions(vals)
  /\ RealCD
  /\ V("CDY").m # 1
  /\ Negative(RadiusCDOf(vals))
  /\ V("CDR") = Neg(RadiusCDOf(vals))
  /\ Dist2(V("CDX"), V("CDY"), V("BCX"), V("BCY")) =
       Pow(Add(vals.RBC, vals.RCD), 2)

C15_FiveReflections ==
  (pc \in {"eval", "done"}) =>
    /\ Len(final_sol_eval) = Index(final_sol_eval, "TANG") + 10
    /\ \A q \in 1..5 :
         LET r  == Reflections[q]
             jx == Index(final_sol_eval, "TANG") + 2 * q - 1
         IN  /\ final_sol_eval[jx].sym = r[1]
             /\ final_sol_eval[jx + 1].sym = r[2]
             /\ Refs(r[1]) = {r[3], r[4], "TANG"}
             /\ Refs(r[2]) = {r[3], r[4], "TANG"}
             /\ Index(final_sol_eval, r[3]) < Index(final_sol_eval, "TANG")
             /\ Index(final_sol_eval, r[4]) < Index(final_sol_eval, "TANG")
             /\ i >= jx + 1 =>
                  <<V(r[1]), V(r[2])>> = ReflectValue(V(r[3]), V(r[4]), V("TANG"))
    /\ \A j \in 1..Len(final_sol_eval) :
         "TANG" \in Refs(final_sol[j].sym) => j > Index(final_sol_eval, "TANG")
    /\ (i >= Index(final_sol_eval, "TANG") /\ Preconditions(vals)) =>
         V("TANG") = Neg(Div(vals.P, PDOf(vals)))

(* all five reflections evaluated to real points, G off the axes *)
C15_Witness ==
  /\ pc = "eval" /\ i = Len(final_sol_eval)
  /\ Preconditions(vals)
  /\ AllFinite(final_sol_eval)
  /\ ~IsZero(V("GX")) /\ ~IsZero(V("GY"))
  /\ V("EX").m # 1
  /\ V("TANG") = Neg(Div(vals.P, PDOf(vals)))
  /\ <<V("GX"), V("GY")>> = ReflectValue(V("BX"), V("BY"), V("TANG"))
  /\ <<V("EX"), V("EY")>> = ReflectValue(V("DX"), V("DY"), V("TANG"))

(* C20: while the loop runs, i counts the iterations made, 0 <= i <= n;    *)
(* the first i entries are evaluated, with no symbol left free, and the    *)
(* others are still the formulas of final_sol; an iteration evaluates the  *)
(* entry after the last evaluated one and changes no other entry; an       *)
(* evaluated entry never changes; once i = n the loop makes no further     *)
(* iteration and every entry is evaluated.                                 *)
C20_AppendOnlyLog ==
  /\ [](pc = "eval" =>
          /\ i \in 0..Len(final_sol_eval)
          /\ Len(final_sol_eval) = Len(final_sol)
          /\ \A j \in 1..Len(final_sol_eval) :
               IF j <= i
               THEN Evaluated(j) /\ final_sol_eval[j].val.k # "sym"
               ELSE final_sol_eval[j] =
                      [sym |-> final_sol[j].sym, form |-> final_sol[j].form,
                       val |-> Sym])
  /\ [][(pc = "eval" /\ final_sol_eval' # final_sol_eval) =>
          /\ i < Len(final_sol_eval)
          /\ i' = i + 1
          /\ final_sol_eval'[i + 1].form = "num"
          /\ \A j \in 1..Len(final_sol_eval) :
               j # i + 1 => final_sol_eval'[j] = final_sol_eval[j]]_vars
  /\ [][(pc = "eval" /\ i' # i) =>
          (i' = i + 1 /\ final_sol_eval' # final_sol_eval)]_vars
  /\ [][\A j \in 1..Len(final_sol_eval) :
          (pc \in {"eval", "done"} /\ Evaluated(j)) =>
            final_sol_eval'[j] = final_sol_eval[j]]_vars
  /\ [][(pc = "eval" /\ pc' = "done") =>
          /\ i = Len(final_sol_eval)
          /\ out' = final_sol_eval
          /\ \A j \in 1..Len(final_sol_eval) :
               Evaluated(j) /\ final_sol_eval[j].val.k # "sym"]_vars

(* the loop at its end after 27 iterations, every entry a real number *)
C20_Witness ==
  /\ pc = "eval"
  /\ i = 27
  /\ Len(final_sol_eval) = 27
  /\ \A j \in 1..27 : Evaluated(j)
  /\ AllFinite(final_sol_eval)

(* C16: whatever runs came before, what a complete run displays for a      *)
(* ParameterSet is what a fresh kernel displays for it, and every global   *)
(* the run leaves behind depends on that ParameterSet alone.               *)
C16_NoHiddenState ==
  pc = "done" =>
    /\ out = FreshRun(vals)
    /\ final_sol_eval = out
    /\ i = Len(out)
    /\ final_sol = BuildFinalSol(res_1_sol, res_2_sol)
    /\ [j \in 1..Len(final_sol) |-> final_sol[j].sym] =
         [j \in 1..Len(out) |-> out[j].sym]

(* a second or later run at its end for a ParameterSet with real outputs,  *)
(* started over the leftovers of a run whose outputs were not real         *)
C16_Witness ==
  /\ pc = "eval"
  /\ i = Len(final_sol_eval)
  /\ out # <<>>
  /\ ~AllFinite(out)
  /\ AllFinite(final_sol_eval)
  /\ final_sol_eval = FreshRun(vals)

(* C17 as stated: an evaluation that has returned, interleaved with the    *)
(* other in any way, has returned the list it returns when run alone for   *)
(* its ParameterSet.                                                       *)
C17_Isolated ==
  \A p \in Procs :
    epc[p] = "done" => ret[p] = EvalFrom(deepcopy(final_sol), eparams[p], 0)

C21_SolutionReadOnly ==
  /\ [][res_1_sol # <<>> => res_1_sol' = res_1_sol]_vars
  /\ [][res_2_sol # <<>> => res_2_sol' = res_2_sol]_vars
  /\ [][final_sol # <<>> => final_sol' = final_sol]_vars
  /\ [](pc \in {"copy", "eval", "done"} =>
          /\ ~eval_is_sol
          /\ final_sol = BuildFinalSol(res_1_sol, res_2_sol)
          /\ Len(final_sol) = 27
          /\ \A j \in 1..Len(final_sol) :
               /\ final_sol[j] = Entry(final_sol[j].sym)
               /\ final_sol[j].form # "num")

(* the loop at the end of a second or later run, both runs with real       *)
(* outputs and for different ParameterSets, final_sol still the formulas   *)
C21_Witness ==
  /\ pc = "eval"
  /\ i = 27
  /\ out # <<>>
  /\ AllFinite(out)
  /\ AllFinite(final_sol_eval)
  /\ out # final_sol_eval
  /\ \A j \in 1..27 : Evaluated(j) /\ final_sol[j].form = final_sol[j].sym

(* C22 as stated: for a ParameterSet meeting the preconditions with        *)
(* Delta >= 0, once RBXY is evaluated (to a number of the model), RBXY is  *)
(* not negative, BCX = -RBXY*sin(2b/PD), BCY = RBXY*cos(2b/PD), and the    *)
(* distance sqrt(BCX^2 + BCY^2) of BC from the origin equals RBXY.         *)
C22_RBXYDistance ==
  (/\ pc = "eval" /\ i >= 9
   /\ Preconditions(vals) /\ ~Negative(DeltaOf(vals))
   /\ IsFin(V("RBXY"))) =>
    LET a == Div(Mul(Num(2), vals.b), PDOf(vals))
    IN  /\ NonNegative(V("RBXY"))
        /\ V("BCX") = Neg(Mul(V("RBXY"), sin(a)))
        /\ V("BCY") = Mul(V("RBXY"), cos(a))
        /\ sqrt(Dist2(V("BCX"), V("BCY"), Num(0), Num(0))) = V("RBXY")
====
